---- MODULE Spec2Model ----
(***************************************************************************)
(* A model of the gorgeous-hunks library: the hunk manipulator             *)
(* (isSplittable, splitHunk, editHunk, generatePatch), the unified-diff    *)
(* parser (parseDiff) and the plan executor (executeStagingPlan).          *)
(*                                                                         *)
(* Representation.  A DiffLine is a record [type, content].  Text (diff    *)
(* input, patch output, hunk headers, hunk ids, paths) is modelled by      *)
(* strings, read character by character as the source's regular            *)
(* expressions and string methods read them.  An absent optional value     *)
(* (hunk.context undefined, currentHunk null) is Null or the empty string  *)
(* where the source only tests truthiness.  Line indices are 0-based as in *)
(* the source; the line with index i is lines[i + 1].                      *)
(***************************************************************************)
EXTENDS Integers, Sequences, FiniteSets, TLC

VARIABLES
    hunk,         \* manipulator: the input hunk
    op,           \* manipulator: the operation applied ("none", "edit", "split")
    arg,          \* manipulator: the operation's arguments
    out,          \* manipulator: the returned hunks
    diff,         \* executor: the ParsedDiff
    plan,         \* executor: plan.selections
    pc,           \* executor: position in executeStagingPlan
    selIdx,       \* executor: index (1-based) of the selection of the for loop
    patch,        \* executor: the patch text of the current selection
    stagedHunks,  \* executor: the local stagedHunks
    vcsLog,       \* executor: the VCS calls made, in order
    ret,          \* executor: the returned value
    text,         \* parser: diffString
    parsed,       \* parser: parseDiff(text)
    patchText,    \* round trip: generatePatch(parsed.getAllHunks())
    reparsed,     \* round trip: parseDiff(patchText)
    pass          \* round trip: "input", "parsed", "generated", "done"

manipVars == <<hunk, op, arg, out>>
execVars == <<diff, plan, pc, selIdx, patch, stagedHunks, vcsLog, ret>>
parseVars == <<text, parsed, patchText, reparsed, pass>>
vars == <<hunk, op, arg, out, diff, plan, pc, selIdx, patch, stagedHunks, vcsLog, ret,
          text, parsed, patchText, reparsed, pass>>

(***************************************************************************)
(* Bounds of the model.                                                    *)
(***************************************************************************)
MaxLines == 5
MaxEditLines == 3
MaxGap == 2
MaxPlan == 3
MaxExecLines == 3
MaxText == 4
MaxIds == 3
MaxHunks == 3
MaxSections == 2

Null == [null |-> TRUE]

LineTypes == {"context", "add", "remove"}
\* How the contents of an input hunk's lines are chosen: all equal, or alternating.
ContentPatterns == {<<"a", "a">>, <<"a", "b">>}
LinesOf(types, pattern) ==
    [k \in 1..Len(types) |-> [type |-> types[k], content |-> pattern[1 + (k % 2)]]]

Min(a, b) == IF a < b THEN a ELSE b

SeqsUpTo(S, n) == UNION {[1..k -> S] : k \in 0..n}

RECURSIVE Concat(_)
Concat(seqs) == IF seqs = <<>> THEN <<>> ELSE Head(seqs) \o Concat(Tail(seqs))

\* slice(from, to) of a JavaScript array, 0-based, `to` exclusive.
Slice(s, from, to) == SubSeq(s, from + 1, Min(to, Len(s)))

(***************************************************************************)
(* Line counting (manipulator.ts: the count loops of splitHunk, editHunk,  *)
(* recalculateHeader).                                                     *)
(***************************************************************************)
RECURSIVE OldCountOf(_)
OldCountOf(lines) ==
    IF lines = <<>> THEN 0
    ELSE (IF Head(lines).type \in {"context", "remove"} THEN 1 ELSE 0) + OldCountOf(Tail(lines))

RECURSIVE NewCountOf(_)
NewCountOf(lines) ==
    IF lines = <<>> THEN 0
    ELSE (IF Head(lines).type \in {"context", "add"} THEN 1 ELSE 0) + NewCountOf(Tail(lines))

\* `@@ -${oldStart},${oldCount} +${newStart},${newCount} @@${context ? ' ' + context : ''}`
HeaderText(oldStart, oldCount, newStart, newCount, context) ==
    "@@ -" \o ToString(oldStart) \o "," \o ToString(oldCount)
    \o " +" \o ToString(newStart) \o "," \o ToString(newCount) \o " @@"
    \o (IF context # "" THEN " " \o context ELSE "")

recalculateHeader(h) ==
    HeaderText(h.oldStart, OldCountOf(h.lines), h.newStart, NewCountOf(h.lines), h.context)

(***************************************************************************)
(* isSplittable                                                            *)
(***************************************************************************)
\* The loop with contextCount never reset at a change line.
RECURSIVE IsSplittableLoopNoReset(_, _, _, _, _)
IsSplittableLoopNoReset(lines, k, inChangeGroup, contextCount, minContextGap) ==
    IF k > Len(lines) THEN FALSE
    ELSE IF lines[k].type = "context"
         THEN IF inChangeGroup
              THEN IsSplittableLoopNoReset(lines, k + 1, contextCount + 1 < minContextGap,
                                           contextCount + 1, minContextGap)
              ELSE IsSplittableLoopNoReset(lines, k + 1, inChangeGroup, contextCount, minContextGap)
         ELSE IF ~inChangeGroup /\ contextCount >= minContextGap /\ contextCount > 0
              THEN TRUE
              ELSE IsSplittableLoopNoReset(lines, k + 1, TRUE, contextCount, minContextGap)

RECURSIVE IsSplittableLoop(_, _, _, _, _)
IsSplittableLoop(lines, k, inChangeGroup, contextCount, minContextGap) ==
    IF k > Len(lines) THEN FALSE
    ELSE IF lines[k].type = "context"
         THEN IF inChangeGroup
              THEN IF contextCount + 1 >= minContextGap
                   THEN IsSplittableLoop(lines, k + 1, FALSE, contextCount + 1, minContextGap)
                   ELSE IsSplittableLoop(lines, k + 1, TRUE, contextCount + 1, minContextGap)
              ELSE IsSplittableLoop(lines, k + 1, inChangeGroup, contextCount, minContextGap)
         ELSE IF ~inChangeGroup /\ contextCount >= minContextGap /\ contextCount > 0
              THEN TRUE
              ELSE IsSplittableLoop(lines, k + 1, TRUE, 0, minContextGap)

isSplittable(h, minContextGap) == IsSplittableLoop(h.lines, 1, FALSE, 0, minContextGap)

(***************************************************************************)
(* splitHunk                                                               *)
(***************************************************************************)
\* One iteration of the grouping loop; st = [groups, currentGroup, contextBuffer, inChangeGroup].
SplitStep(st, line, minContextGap) ==
    IF line.type = "context"
    THEN LET buf == Append(st.contextBuffer, line)
         IN IF st.inChangeGroup /\ Len(buf) >= minContextGap
            THEN LET trailingContext == Slice(buf, 0, Min(minContextGap, Len(buf)))
                 IN [groups |-> Append(st.groups, st.currentGroup \o trailingContext),
                     currentGroup |-> Slice(buf, Min(minContextGap, Len(buf)), Len(buf)),
                     contextBuffer |-> buf,
                     inChangeGroup |-> FALSE]
            ELSE [st EXCEPT !.contextBuffer = buf]
    ELSE LET withContext ==
                 IF ~st.inChangeGroup /\ Len(st.currentGroup) = 0
                 THEN st.contextBuffer
                 ELSE st.currentGroup \o st.contextBuffer
         IN [groups |-> st.groups,
             currentGroup |-> Append(withContext, line),
             contextBuffer |-> <<>>,
             inChangeGroup |-> TRUE]

RECURSIVE SplitLoop(_, _, _, _)
SplitLoop(lines, k, st, minContextGap) ==
    IF k > Len(lines) THEN st
    ELSE SplitLoop(lines, k + 1, SplitStep(st, lines[k], minContextGap), minContextGap)

\* The groups without the final push of currentGroup.
SplitGroupsNoLast(lines, minContextGap) ==
    SplitLoop(lines, 1,
              [groups |-> <<>>, currentGroup |-> <<>>,
               contextBuffer |-> <<>>, inChangeGroup |-> FALSE],
              minContextGap).groups

SplitGroups(lines, minContextGap) ==
    LET st == SplitLoop(lines, 1,
                        [groups |-> <<>>, currentGroup |-> <<>>,
                         contextBuffer |-> <<>>, inChangeGroup |-> FALSE],
                        minContextGap)
    IN IF Len(st.currentGroup) > 0
       THEN Append(st.groups, st.currentGroup \o st.contextBuffer)
       ELSE st.groups

\* The sub-hunk of group number groupIndex (0-based) starting at oldLine/newLine.
SubHunk(h, group, groupIndex, oldLine, newLine) ==
    [id |-> h.file \o ":" \o ToString(h.index) \o "." \o ToString(groupIndex),
     file |-> h.file,
     index |-> h.index,
     header |-> HeaderText(oldLine, OldCountOf(group), newLine, NewCountOf(group), h.context),
     oldStart |-> oldLine,
     oldCount |-> OldCountOf(group),
     newStart |-> newLine,
     newCount |-> NewCountOf(group),
     lines |-> group,
     context |-> h.context]

RECURSIVE GroupsToHunks(_, _, _, _, _)
GroupsToHunks(h, groups, groupIndex, oldLine, newLine) ==
    IF groupIndex >= Len(groups) THEN <<>>
    ELSE LET group == groups[groupIndex + 1]
         IN <<SubHunk(h, group, groupIndex, oldLine, newLine)>>
            \o GroupsToHunks(h, groups, groupIndex + 1,
                             oldLine + OldCountOf(group), newLine + NewCountOf(group))

\* splitHunk without the early return for a hunk that is not splittable.
splitHunkUnchecked(h, minContextGap) ==
    GroupsToHunks(h, SplitGroups(h.lines, minContextGap), 0, h.oldStart, h.newStart)

splitHunk(h, minContextGap) ==
    IF ~isSplittable(h, minContextGap) THEN <<h>>
    ELSE GroupsToHunks(h, SplitGroups(h.lines, minContextGap), 0, h.oldStart, h.newStart)

(***************************************************************************)
(* editHunk                                                                *)
(***************************************************************************)
\* The loop body over hunk.lines[i]: what is pushed to newLines.
EditLine(line, i, removeAddSet, keepRemovalSet) ==
    IF line.type = "add"
    THEN IF i \notin removeAddSet THEN <<line>> ELSE <<>>
    ELSE IF line.type = "remove"
         THEN IF i \in keepRemovalSet
              THEN <<[type |-> "context", content |-> line.content]>>
              ELSE <<line>>
         ELSE <<line>>

\* The number of lines of the type of lines[k] before it: its per-type counter.
TypeRank(lines, k) == Cardinality({j \in 1..(k - 1) : lines[j].type = lines[k].type})

\* editHunk's loop reading the index sets as per-type counters (the i-th Add).
EditLinesByCounter(lines, i, removeAddSet, keepRemovalSet) ==
    Concat([k \in 1..Len(lines) |->
               EditLine(lines[k], TypeRank(lines, k), removeAddSet, keepRemovalSet)])

RECURSIVE EditLines(_, _, _, _)
EditLines(lines, i, removeAddSet, keepRemovalSet) ==
    IF i >= Len(lines) THEN <<>>
    ELSE EditLine(lines[i + 1], i, removeAddSet, keepRemovalSet)
         \o EditLines(lines, i + 1, removeAddSet, keepRemovalSet)

\* editHunk keeping the counts and header of the spread {...hunk}.
editHunkStaleCounts(h, removeAdditions, keepRemovals) ==
    [h EXCEPT !.lines = EditLines(h.lines, 0, removeAdditions, keepRemovals)]

editHunk(h, removeAdditions, keepRemovals) ==
    LET newLines == EditLines(h.lines, 0, removeAdditions, keepRemovals)
        edited == [h EXCEPT !.lines = newLines,
                            !.oldCount = OldCountOf(newLines),
                            !.newCount = NewCountOf(newLines)]
    IN [edited EXCEPT !.header = recalculateHeader(edited)]

(***************************************************************************)
(* generatePatch                                                           *)
(***************************************************************************)
\* The keys of byFile in insertion order: each file at its first hunk.
RECURSIVE FileOrder(_, _)
FileOrder(hunks, seen) ==
    IF hunks = <<>> THEN <<>>
    ELSE IF Head(hunks).file \in seen
         THEN FileOrder(Tail(hunks), seen)
         ELSE <<Head(hunks).file>> \o FileOrder(Tail(hunks), seen \cup {Head(hunks).file})

HunksOfFile(hunks, file) == SelectSeq(hunks, LAMBDA h : h.file = file)

\* The insertion of a sort that is not stable: h goes before the hunks of its oldStart.
RECURSIVE InsertByOldStartUnstable(_, _)
InsertByOldStartUnstable(sorted, h) ==
    IF sorted = <<>> THEN <<h>>
    ELSE IF h.oldStart <= Head(sorted).oldStart
         THEN <<h>> \o sorted
         ELSE <<Head(sorted)>> \o InsertByOldStartUnstable(Tail(sorted), h)

\* [...fileHunks].sort((a, b) => a.oldStart - b.oldStart): a stable sort.
RECURSIVE InsertByOldStart(_, _)
InsertByOldStart(sorted, h) ==
    IF sorted = <<>> THEN <<h>>
    ELSE IF h.oldStart < Head(sorted).oldStart
         THEN <<h>> \o sorted
         ELSE <<Head(sorted)>> \o InsertByOldStart(Tail(sorted), h)

RECURSIVE SortByOldStart(_)
SortByOldStart(hunks) ==
    IF hunks = <<>> THEN <<>>
    ELSE InsertByOldStart(SortByOldStart(SubSeq(hunks, 1, Len(hunks) - 1)), hunks[Len(hunks)])

\* The prefix with '+' and '-' exchanged.
LinePrefixSwapped(line) ==
    IF line.type = "context" THEN " " ELSE IF line.type = "add" THEN "-" ELSE "+"

LinePrefix(line) ==
    IF line.type = "context" THEN " " ELSE IF line.type = "add" THEN "+" ELSE "-"

\* The sections pushed for one hunk: its header, then its lines with their prefix.
HunkSections(h) ==
    <<h.header>> \o [k \in 1..Len(h.lines) |-> LinePrefix(h.lines[k]) \o h.lines[k].content]

RECURSIVE AllHunkSections(_)
AllHunkSections(hunks) ==
    IF hunks = <<>> THEN <<>> ELSE HunkSections(Head(hunks)) \o AllHunkSections(Tail(hunks))

FileSections(hunks, file) ==
    <<"diff --git a/" \o file \o " b/" \o file, "--- a/" \o file, "+++ b/" \o file>>
    \o AllHunkSections(SortByOldStart(HunksOfFile(hunks, file)))

RECURSIVE PatchSections(_, _)
PatchSections(hunks, fileOrder) ==
    IF fileOrder = <<>> THEN <<>>
    ELSE FileSections(hunks, Head(fileOrder)) \o PatchSections(hunks, Tail(fileOrder))

\* sections.join('\n')
RECURSIVE JoinLines(_)
JoinLines(sections) ==
    IF sections = <<>> THEN ""
    ELSE IF Len(sections) = 1 THEN Head(sections)
         ELSE Head(sections) \o "\n" \o JoinLines(Tail(sections))

\* str.split('\n')
RECURSIVE SplitFrom(_, _)
SplitFrom(str, start) ==
    LET breaks == {k \in start..Len(str) : SubSeq(str, k, k) = "\n"}
    IN IF breaks = {} THEN <<SubSeq(str, start, Len(str))>>
       ELSE LET k == CHOOSE x \in breaks : \A y \in breaks : x <= y
            IN <<SubSeq(str, start, k - 1)>> \o SplitFrom(str, k + 1)

SplitLines(str) == SplitFrom(str, 1)

generatePatch(hunks) ==
    IF Len(hunks) = 0 THEN ""
    ELSE JoinLines(PatchSections(hunks, FileOrder(hunks, {}))) \o "\n"

(***************************************************************************)
(* The manipulator as a state machine: an input hunk is chosen, then one   *)
(* operation is applied to it.                                             *)
(***************************************************************************)
MkHunk(file, index, oldStart, newStart, lines, context) ==
    [id |-> file \o ":" \o ToString(index),
     file |-> file,
     index |-> index,
     header |-> HeaderText(oldStart, OldCountOf(lines), newStart, NewCountOf(lines), context),
     oldStart |-> oldStart,
     oldCount |-> OldCountOf(lines),
     newStart |-> newStart,
     newCount |-> NewCountOf(lines),
     lines |-> lines,
     context |-> context]

\* Where the input hunk sits in its file, and its @@ context.
HunkPlaces ==
    {[index |-> 0, oldStart |-> 1, newStart |-> 1, context |-> ""],
     [index |-> 1, oldStart |-> 7, newStart |-> 9, context |-> "fn"]}

NoArg == [removeAdditions |-> {}, keepRemovals |-> {}, minContextGap |-> 0]

ExecIdle ==
    /\ diff = <<>>
    /\ plan = <<>>
    /\ pc = "idle"
    /\ selIdx = 0
    /\ patch = ""
    /\ stagedHunks = <<>>
    /\ vcsLog = <<>>
    /\ ret = Null

ParseIdle ==
    /\ text = ""
    /\ parsed = <<>>
    /\ patchText = ""
    /\ reparsed = <<>>
    /\ pass = "idle"

Init ==
    /\ \E p \in HunkPlaces, types \in SeqsUpTo(LineTypes, MaxLines), pattern \in ContentPatterns :
          hunk = MkHunk("F", p.index, p.oldStart, p.newStart, LinesOf(types, pattern), p.context)
    /\ op = "none"
    /\ arg = NoArg
    /\ out = <<>>
    /\ ExecIdle
    /\ ParseIdle

\* editHunk(hunk, {removeAdditions, keepRemovals})
EditHunk ==
    /\ op = "none"
    /\ Len(hunk.lines) <= MaxEditLines
    /\ \E S \in SUBSET (0..(Len(hunk.lines) - 1)), K \in SUBSET (0..(Len(hunk.lines) - 1)) :
          /\ arg' = [NoArg EXCEPT !.removeAdditions = S, !.keepRemovals = K]
          /\ out' = <<editHunk(hunk, S, K)>>
    /\ op' = "edit"
    /\ UNCHANGED <<hunk, execVars, parseVars>>

\* splitHunk(hunk, minContextGap)
SplitHunk ==
    /\ op = "none"
    /\ \E g \in 1..MaxGap :
          /\ arg' = [NoArg EXCEPT !.minContextGap = g]
          /\ out' = splitHunk(hunk, g)
    /\ op' = "split"
    /\ UNCHANGED <<hunk, execVars, parseVars>>

\* isSplittable(hunk, minContextGap)
IsSplittable ==
    /\ op = "none"
    /\ \E g \in 1..MaxGap :
          /\ arg' = [NoArg EXCEPT !.minContextGap = g]
          /\ out' = <<isSplittable(hunk, g)>>
    /\ op' = "splittable"
    /\ UNCHANGED <<hunk, execVars, parseVars>>

Next == EditHunk \/ SplitHunk \/ IsSplittable

Spec == Init /\ [][Next]_vars

(***************************************************************************)
(* ParsedDiff helpers (createParsedDiff).  A ParsedDiff is modelled by its *)
(* files, a sequence of FileDiff records.                                  *)
(***************************************************************************)
RECURSIVE getAllHunks(_)
getAllHunks(fs) == IF fs = <<>> THEN <<>> ELSE Head(fs).hunks \o getAllHunks(Tail(fs))

\* The first hunk with this id in file order, or Null (undefined).
getHunk(fs, id) ==
    LET hs == SelectSeq(getAllHunks(fs), LAMBDA h : h.id = id)
    IN IF hs = <<>> THEN Null ELSE Head(hs)

MkFile(oldPath, newPath, hunks) ==
    [oldPath |-> oldPath, newPath |-> newPath, isNew |-> FALSE, isDeleted |-> FALSE,
     isRenamed |-> oldPath # newPath, hunks |-> hunks]

(***************************************************************************)
(* executeStagingPlan                                                      *)
(***************************************************************************)
\* error.stderr || error.message of a failed git call.
VcsError == "error: patch failed"

IndicesOfType(h, type) == {i \in 0..(Len(h.lines) - 1) : h.lines[i + 1].type = type}

\* The selection's patch with the include sets taken for the sets of kept lines.
SelectionPatchInverted(h, selection) ==
    IF selection.mode = "all" /\ Len(selection.lineEdits) = 0
    THEN generatePatch(<<h>>)
    ELSE generatePatch(<<editHunk(h, selection.includeAdditions, selection.includeRemovals)>>)

\* The patch text executeStagingPlan builds for a selection whose hunk is h.
SelectionPatch(h, selection) ==
    IF selection.mode = "all" /\ Len(selection.lineEdits) = 0
    THEN generatePatch(<<h>>)
    ELSE LET addIndices == IndicesOfType(h, "add")
             removeIndices == IndicesOfType(h, "remove")
             includeAddSet == IF selection.mode = "all" THEN addIndices
                              ELSE selection.includeAdditions
             removeAdditions == {i \in addIndices : i \notin includeAddSet}
             includeRemoveSet == IF selection.mode = "all" THEN removeIndices
                                 ELSE selection.includeRemovals
             keepRemovals == {i \in removeIndices : i \notin includeRemoveSet}
         IN generatePatch(<<editHunk(h, removeAdditions, keepRemovals)>>)

AtSelection == pc = "loop" /\ selIdx <= Len(plan)
Selection == plan[selIdx]

\* if (selection.mode === 'none') continue;
SkipNone ==
    /\ AtSelection
    /\ Selection.mode = "none"
    /\ selIdx' = selIdx + 1
    /\ UNCHANGED <<diff, plan, pc, patch, stagedHunks, vcsLog, ret, manipVars, parseVars>>

\* A missing hunk skipped like a selection of mode None.
HunkNotFoundSkipped ==
    /\ AtSelection
    /\ Selection.mode # "none"
    /\ getHunk(diff, Selection.hunkId) = Null
    /\ selIdx' = selIdx + 1
    /\ UNCHANGED <<diff, plan, pc, patch, stagedHunks, vcsLog, ret, manipVars, parseVars>>

\* if (!hunk) return { success: false, error: `Hunk not found: ...`, stagedHunks };
HunkNotFound ==
    /\ AtSelection
    /\ Selection.mode # "none"
    /\ getHunk(diff, Selection.hunkId) = Null
    /\ ret' = [success |-> FALSE, error |-> "Hunk not found: " \o Selection.hunkId,
               stagedHunks |-> stagedHunks]
    /\ pc' = "done"
    /\ UNCHANGED <<diff, plan, selIdx, patch, stagedHunks, vcsLog, manipVars, parseVars>>

\* checkPatch proceeding to applyPatchToIndex when the check rejects the patch too.
CheckPatchUnheeded ==
    /\ AtSelection
    /\ Selection.mode # "none"
    /\ getHunk(diff, Selection.hunkId) # Null
    /\ patch' = SelectionPatch(getHunk(diff, Selection.hunkId), Selection)
    /\ \E applies \in BOOLEAN :
          vcsLog' = Append(vcsLog, [call |-> "checkPatch", patch |-> patch',
                                    ok |-> applies, sel |-> selIdx])
    /\ pc' = "apply"
    /\ UNCHANGED <<diff, plan, selIdx, stagedHunks, ret, manipVars, parseVars>>

\* The patch is built and handed to checkPatch, which accepts or rejects it.
CheckPatch ==
    /\ AtSelection
    /\ Selection.mode # "none"
    /\ getHunk(diff, Selection.hunkId) # Null
    /\ patch' = SelectionPatch(getHunk(diff, Selection.hunkId), Selection)
    /\ \E applies \in BOOLEAN :
          /\ vcsLog' = Append(vcsLog, [call |-> "checkPatch", patch |-> patch',
                                       ok |-> applies, sel |-> selIdx])
          /\ IF applies
             THEN pc' = "apply" /\ ret' = ret
             ELSE /\ pc' = "done"
                  /\ ret' = [success |-> FALSE,
                             error |-> "Patch for " \o Selection.hunkId
                                       \o " won't apply: " \o VcsError,
                             stagedHunks |-> stagedHunks]
    /\ UNCHANGED <<diff, plan, selIdx, stagedHunks, manipVars, parseVars>>

\* applyPatchToIndex recording the hunk as staged whatever the call returned.
ApplyPatchToIndexAlwaysStaged ==
    /\ pc = "apply"
    /\ \E success \in BOOLEAN :
          /\ vcsLog' = Append(vcsLog, [call |-> "applyPatchToIndex", patch |-> patch,
                                       ok |-> success, sel |-> selIdx])
          /\ stagedHunks' = Append(stagedHunks, Selection.hunkId)
          /\ IF success
             THEN pc' = "loop" /\ selIdx' = selIdx + 1 /\ ret' = ret
             ELSE /\ pc' = "done"
                  /\ selIdx' = selIdx
                  /\ ret' = [success |-> FALSE,
                             error |-> "Failed to stage " \o Selection.hunkId \o ": " \o VcsError,
                             stagedHunks |-> stagedHunks']
    /\ UNCHANGED <<diff, plan, patch, manipVars, parseVars>>

\* The checked patch is handed to applyPatchToIndex, which succeeds or fails.
ApplyPatchToIndex ==
    /\ pc = "apply"
    /\ \E success \in BOOLEAN :
          /\ vcsLog' = Append(vcsLog, [call |-> "applyPatchToIndex", patch |-> patch,
                                       ok |-> success, sel |-> selIdx])
          /\ IF success
             THEN /\ stagedHunks' = Append(stagedHunks, Selection.hunkId)
                  /\ selIdx' = selIdx + 1
                  /\ pc' = "loop"
                  /\ ret' = ret
             ELSE /\ stagedHunks' = stagedHunks
                  /\ selIdx' = selIdx
                  /\ pc' = "done"
                  /\ ret' = [success |-> FALSE,
                             error |-> "Failed to stage " \o Selection.hunkId \o ": " \o VcsError,
                             stagedHunks |-> stagedHunks]
    /\ UNCHANGED <<diff, plan, patch, manipVars, parseVars>>

\* return { success: true, stagedHunks };
ReturnSuccess ==
    /\ pc = "loop"
    /\ selIdx > Len(plan)
    /\ ret' = [success |-> TRUE, error |-> "", stagedHunks |-> stagedHunks]
    /\ pc' = "done"
    /\ UNCHANGED <<diff, plan, selIdx, patch, stagedHunks, vcsLog, manipVars, parseVars>>

(***************************************************************************)
(* Inputs of the executor.  Plans of several selections over a two-file    *)
(* diff exercise the control flow; one-selection plans over a hunk with    *)
(* arbitrary lines exercise the patch built for a selection.               *)
(***************************************************************************)
MkSelection(hunkId, mode, adds, removes, edits) ==
    [hunkId |-> hunkId, mode |-> mode, includeAdditions |-> adds,
     includeRemovals |-> removes, lineEdits |-> edits]

FlowDiff ==
    <<MkFile("F", "F", <<MkHunk("F", 0, 1, 1,
                                <<[type |-> "context", content |-> "a"],
                                  [type |-> "add", content |-> "b"],
                                  [type |-> "remove", content |-> "a"]>>, "")>>),
      MkFile("G", "G", <<MkHunk("G", 0, 4, 4,
                                <<[type |-> "add", content |-> "a"],
                                  [type |-> "context", content |-> "b"]>>, "fn")>>)>>

FlowSelections ==
    {MkSelection(id, "none", {}, {}, <<>>) : id \in {"F:0", "G:0", "X:0"}}
    \cup {MkSelection(id, "all", {}, {}, <<>>) : id \in {"F:0", "G:0", "X:0"}}
    \cup {MkSelection(id, "partial", {1}, {}, <<>>) : id \in {"F:0"}}

\* Lines of the given types, the line with index i having the content "l<i>".
LinesOfTypes(types) == [k \in 1..Len(types) |-> [type |-> types[k], content |-> "l" \o ToString(k - 1)]]

PatchDiff(types) == <<MkFile("F", "F", <<MkHunk("F", 0, 3, 3, LinesOfTypes(types), "")>>)>>

LineEdit0 == <<[lineIndex |-> 0, newContent |-> "z"]>>

\* The selections of a hunk of n lines: All and Partial, with or without a line edit;
\* the include sets of a Partial selection are any set X of line indices for both, or
\* X for the additions and its complement for the removals, so that every line is
\* named by any combination of the two sets, whatever its kind.
PatchSelections(n) ==
    {MkSelection("F:0", "all", {}, {}, e) : e \in {<<>>, LineEdit0}}
    \cup {MkSelection("F:0", "partial", X, X, e) :
             X \in SUBSET (0..(n - 1)), e \in {<<>>, LineEdit0}}
    \cup {MkSelection("F:0", "partial", X, (0..(n - 1)) \ X, <<>>) : X \in SUBSET (0..(n - 1))}

ManipIdle ==
    /\ hunk = Null
    /\ op = "idle"
    /\ arg = NoArg
    /\ out = <<>>

InitExec ==
    /\ \/ /\ diff = FlowDiff
          /\ plan \in SeqsUpTo(FlowSelections, MaxPlan)
       \/ \E types \in SeqsUpTo(LineTypes, MaxExecLines) \ {<<>>} :
             /\ diff = PatchDiff(types)
             /\ \E sel \in PatchSelections(Len(types)) : plan = <<sel>>
    /\ pc = "loop"
    /\ selIdx = 1
    /\ patch = ""
    /\ stagedHunks = <<>>
    /\ vcsLog = <<>>
    /\ ret = Null
    /\ ManipIdle
    /\ ParseIdle

NextExec == SkipNone \/ HunkNotFound \/ CheckPatch \/ ApplyPatchToIndex \/ ReturnSuccess

SpecExec == InitExec /\ [][NextExec]_vars

(***************************************************************************)
(* parseDiff (parser.ts)                                                   *)
(***************************************************************************)
StartsWith(str, prefix) == Len(str) >= Len(prefix) /\ SubSeq(str, 1, Len(prefix)) = prefix
\* str.slice(m - 1, n): the characters m..n of str that exist.
Sub(str, m, n) == IF m > Len(str) \/ n < m THEN "" ELSE SubSeq(str, m, Min(n, Len(str)))

\* str[k - 1], or "" past the end.
CharAt(str, k) == Sub(str, k, k)
Digits == {"0", "1", "2", "3", "4", "5", "6", "7", "8", "9"}

DigitValue(c) ==
    CASE c = "0" -> 0 [] c = "1" -> 1 [] c = "2" -> 2 [] c = "3" -> 3 [] c = "4" -> 4
      [] c = "5" -> 5 [] c = "6" -> 6 [] c = "7" -> 7 [] c = "8" -> 8 [] c = "9" -> 9

\* parseInt(str, 10) of a string of digits.
RECURSIVE parseInt(_)
parseInt(str) ==
    IF Len(str) = 0 THEN 0
    ELSE 10 * parseInt(SubSeq(str, 1, Len(str) - 1)) + DigitValue(CharAt(str, Len(str)))

\* The position after the longest run of digits of str that starts at k: (\d+).
RECURSIVE DigitsEnd(_, _)
DigitsEnd(str, k) ==
    IF k <= Len(str) /\ CharAt(str, k) \in Digits THEN DigitsEnd(str, k + 1) ELSE k

\* str.trim(), for the blanks of a hunk header.
RECURSIVE Trim(_)
Trim(str) ==
    IF Len(str) > 0 /\ CharAt(str, 1) = " " THEN Trim(SubSeq(str, 2, Len(str)))
    ELSE IF Len(str) > 0 /\ CharAt(str, Len(str)) = " " THEN Trim(SubSeq(str, 1, Len(str) - 1))
    ELSE str

\* FILE_HEADER_REGEX = /^diff --git a\/(.+) b\/(.+)$/: the first group is greedy, so
\* the separator " b/" is the last one that leaves both groups non-empty.
FileHeaderPrefix == "diff --git a/"

MatchFileHeader(line) ==
    IF ~StartsWith(line, FileHeaderPrefix) THEN Null
    ELSE LET first == Len(FileHeaderPrefix) + 1
             seps == {k \in (first + 1)..(Len(line) - 3) : SubSeq(line, k, k + 2) = " b/"}
         IN IF seps = {} THEN Null
            ELSE LET k == CHOOSE x \in seps : \A y \in seps : y <= x
                 IN [oldPath |-> SubSeq(line, first, k - 1),
                     newPath |-> SubSeq(line, k + 3, Len(line))]

\* An optional group (?:,(\d+))? at position k: its digits and the position after it.
OptionalCount(line, k) ==
    IF CharAt(line, k) = "," /\ DigitsEnd(line, k + 1) > k + 1
    THEN [digits |-> SubSeq(line, k + 1, DigitsEnd(line, k + 1) - 1),
          next |-> DigitsEnd(line, k + 1)]
    ELSE [digits |-> "", next |-> k]

\* HUNK_HEADER_REGEX = /^@@ -(\d+)(?:,(\d+))? \+(\d+)(?:,(\d+))? @@(.*)$/
MatchHunkHeader(line) ==
    IF ~StartsWith(line, "@@ -") THEN Null
    ELSE LET e1 == DigitsEnd(line, 5)
             c1 == OptionalCount(line, e1)
             s2 == c1.next + 2
             e2 == DigitsEnd(line, s2)
             c2 == OptionalCount(line, e2)
         IN IF /\ e1 > 5
               /\ Sub(line, c1.next, c1.next + 1) = " +"
               /\ e2 > s2
               /\ Sub(line, c2.next, c2.next + 2) = " @@"
            THEN [oldStart |-> SubSeq(line, 5, e1 - 1),
                  oldCount |-> c1.digits,
                  newStart |-> SubSeq(line, s2, e2 - 1),
                  newCount |-> c2.digits,
                  context |-> SubSeq(line, c2.next + 3, Len(line))]
            ELSE Null

IsModeLine(metaLine) ==
    \/ StartsWith(metaLine, "index ")
    \/ StartsWith(metaLine, "--- ")
    \/ StartsWith(metaLine, "+++ ")
    \/ StartsWith(metaLine, "old mode")
    \/ StartsWith(metaLine, "new mode")
    \/ StartsWith(metaLine, "similarity index")
    \/ StartsWith(metaLine, "rename from")
    \/ StartsWith(metaLine, "rename to")
    \/ StartsWith(metaLine, "Binary files")

\* The look-ahead loop after a file header; st = [lineIndex, file].
RECURSIVE LookAhead(_, _)
LookAhead(lines, st) ==
    IF st.lineIndex >= Len(lines) THEN st
    ELSE LET metaLine == lines[st.lineIndex + 1]
         IN IF StartsWith(metaLine, "new file mode")
            THEN LookAhead(lines, [lineIndex |-> st.lineIndex + 1,
                                   file |-> [st.file EXCEPT !.isNew = TRUE]])
            ELSE IF StartsWith(metaLine, "deleted file mode")
            THEN LookAhead(lines, [lineIndex |-> st.lineIndex + 1,
                                   file |-> [st.file EXCEPT !.isDeleted = TRUE]])
            ELSE IF IsModeLine(metaLine)
            THEN LookAhead(lines, [st EXCEPT !.lineIndex = st.lineIndex + 1])
            ELSE st

\* currentFile with currentHunk pushed to its hunks, when there is one.
WithHunk(file, h) == IF h # Null THEN [file EXCEPT !.hunks = Append(file.hunks, h)] ELSE file

\* A count that defaults to 0 when the header omits it.
CountOrDefaultZero(digits) == IF digits # "" THEN parseInt(digits) ELSE 0

\* oldCount ? parseInt(oldCount, 10) : 1
CountOrDefault(digits) == IF digits # "" THEN parseInt(digits) ELSE 1

\* A hunk index that is never advanced.
NextHunkIndexStuck(i) == i

\* hunkIndex++
NextHunkIndex(i) == i + 1

\* An iteration that leaves the state as it is.
ParseStepNoAdvance(lines, st) == st

\* One iteration of parseDiff's outer loop;
\* st = [lineIndex, files, currentFile, currentHunk, hunkIndex].
ParseStep(lines, st) ==
    LET line == lines[st.lineIndex + 1]
        fileMatch == MatchFileHeader(line)
        hunkMatch == MatchHunkHeader(line)
    IN IF fileMatch # Null
       THEN LET ahead == LookAhead(lines,
                             [lineIndex |-> st.lineIndex + 1,
                              file |-> MkFile(fileMatch.oldPath, fileMatch.newPath, <<>>)])
            IN [lineIndex |-> ahead.lineIndex,
                files |-> IF st.currentFile # Null
                          THEN Append(st.files, WithHunk(st.currentFile, st.currentHunk))
                          ELSE st.files,
                currentFile |-> ahead.file,
                currentHunk |-> Null,
                hunkIndex |-> 0]
       ELSE IF hunkMatch # Null /\ st.currentFile # Null
       THEN [lineIndex |-> st.lineIndex + 1,
             files |-> st.files,
             currentFile |-> WithHunk(st.currentFile, st.currentHunk),
             currentHunk |->
                 [id |-> st.currentFile.newPath \o ":" \o ToString(st.hunkIndex),
                  file |-> st.currentFile.newPath,
                  index |-> st.hunkIndex,
                  header |-> line,
                  oldStart |-> parseInt(hunkMatch.oldStart),
                  oldCount |-> CountOrDefault(hunkMatch.oldCount),
                  newStart |-> parseInt(hunkMatch.newStart),
                  newCount |-> CountOrDefault(hunkMatch.newCount),
                  lines |-> <<>>,
                  context |-> Trim(hunkMatch.context)],
             hunkIndex |-> NextHunkIndex(st.hunkIndex)]
       ELSE IF st.currentHunk # Null /\ Len(line) > 0
       THEN LET prefix == CharAt(line, 1)
                content == SubSeq(line, 2, Len(line))
                type == IF prefix = " " THEN "context"
                        ELSE IF prefix = "-" THEN "remove"
                        ELSE IF prefix = "+" THEN "add" ELSE ""
            IN [st EXCEPT !.lineIndex = st.lineIndex + 1,
                          !.currentHunk =
                              IF type # ""
                              THEN [st.currentHunk EXCEPT
                                       !.lines = Append(st.currentHunk.lines,
                                                        [type |-> type, content |-> content])]
                              ELSE st.currentHunk]
       ELSE [st EXCEPT !.lineIndex = st.lineIndex + 1]

RECURSIVE ParseLoop(_, _)
ParseLoop(lines, st) ==
    IF st.lineIndex >= Len(lines) THEN st ELSE ParseLoop(lines, ParseStep(lines, st))

\* parseDiff(diffString): the files of the returned ParsedDiff.
parseDiff(diffString) ==
    LET st == ParseLoop(SplitLines(diffString),
                        [lineIndex |-> 0, files |-> <<>>, currentFile |-> Null,
                         currentHunk |-> Null, hunkIndex |-> 0])
    IN IF st.currentFile # Null
       THEN Append(st.files, WithHunk(st.currentFile, st.currentHunk))
       ELSE st.files

\* validateHunk(hunk)
validateHunk(h) ==
    LET contextCount == Cardinality({i \in 1..Len(h.lines) : h.lines[i].type = "context"})
        removeCount == Cardinality({i \in 1..Len(h.lines) : h.lines[i].type = "remove"})
        addCount == Cardinality({i \in 1..Len(h.lines) : h.lines[i].type = "add"})
        expectedOldCount == contextCount + removeCount
        expectedNewCount == contextCount + addCount
    IN IF expectedOldCount # h.oldCount
       THEN [valid |-> FALSE,
             error |-> "Old count mismatch: header says " \o ToString(h.oldCount)
                       \o ", actual is " \o ToString(expectedOldCount)]
       ELSE IF expectedNewCount # h.newCount
       THEN [valid |-> FALSE,
             error |-> "New count mismatch: header says " \o ToString(h.newCount)
                       \o ", actual is " \o ToString(expectedNewCount)]
       ELSE [valid |-> TRUE, error |-> ""]

(***************************************************************************)
(* selectHunksWithLines                                                    *)
(***************************************************************************)
\* The position of the last ":" of str, or 0.
LastColon(str) ==
    LET colons == {k \in 1..Len(str) : CharAt(str, k) = ":"}
    IN IF colons = {} THEN 0 ELSE CHOOSE k \in colons : \A m \in colons : m <= k

\* str matches /^.+:\d+$/
EndsInIndex(str) ==
    LET c == LastColon(str)
    IN /\ c > 1
       /\ c < Len(str)
       /\ \A k \in (c + 1)..Len(str) : CharAt(str, k) \in Digits

\* parseHunkId(id): id.match(/^(.+:\d+):(\d+)$/); hasLine is lineIndex !== undefined.
parseHunkId(id) ==
    IF EndsInIndex(id) /\ EndsInIndex(SubSeq(id, 1, LastColon(id) - 1))
    THEN [baseId |-> SubSeq(id, 1, LastColon(id) - 1), hasLine |-> TRUE,
          lineIndex |-> parseInt(SubSeq(id, LastColon(id) + 1, Len(id)))]
    ELSE [baseId |-> id, hasLine |-> FALSE, lineIndex |-> 0]

\* wholeHunkIds after the first loop.
WholeHunkIds(ids) ==
    {parseHunkId(ids[k]).baseId : k \in {n \in 1..Len(ids) : ~parseHunkId(ids[n]).hasLine}}

\* linesByHunk.get(baseId) after the first loop (empty: no entry).
LinesByHunk(ids, baseId) ==
    {parseHunkId(ids[k]).lineIndex :
        k \in {n \in 1..Len(ids) : parseHunkId(ids[n]).hasLine
                                   /\ parseHunkId(ids[n]).baseId = baseId}}

HasLinesByHunk(ids, baseId) ==
    \E n \in 1..Len(ids) : parseHunkId(ids[n]).hasLine /\ parseHunkId(ids[n]).baseId = baseId

\* The line-level branch with the selected indices themselves removed.
SelectedLinesInverted(h, selected) == editHunk(h, IndicesOfType(h, "add") \cap selected, {})

\* The line-level branch: the additions outside selected are removed by editHunk.
SelectedLines(h, selected) == editHunk(h, IndicesOfType(h, "add") \ selected, {})

\* The second loop, over diff.getAllHunks().
RECURSIVE SelectLoop(_, _)
SelectLoop(hunks, ids) ==
    IF hunks = <<>> THEN <<>>
    ELSE LET h == Head(hunks)
         IN (IF h.id \in WholeHunkIds(ids) THEN <<h>>
             ELSE IF HasLinesByHunk(ids, h.id)
             THEN <<SelectedLines(h, LinesByHunk(ids, h.id))>>
             ELSE <<>>)
            \o SelectLoop(Tail(hunks), ids)

selectHunksWithLines(fs, ids) == SelectLoop(getAllHunks(fs), ids)

\* The diffs of the selector: the results of parseDiff for three texts.
SelectTexts ==
    {"diff --git a/F b/F\n@@ -1,3 +1,4 @@\n a\n+b\n-c\n+d\n a\n@@ -9 +10,2 @@ fn\n a\n+e\n"
       \o "diff --git a/G b/G\n@@ -1 +1,2 @@\n a\n+b\n",
     "diff --git a/F b/F\n@@ -1 +1,2 @@\n+b\n a\n@@ -9,0 +10 @@\n+e\n"
       \o "diff --git a/F:1 b/F:1\n@@ -1 +1,2 @@\n a\n+b\n",
     "diff --git a/F b/F\n@@ -1,5 +1,5 @@\n a\n+b\n"}

SelectIds ==
    {"F:0", "F:1", "G:0", "F:0:1", "F:0:2", "F:0:3", "F:1:0", "F:1:1", "X:0", "X:0:5"}

InitSelect ==
    /\ \E t \in SelectTexts : diff = parseDiff(t)
    /\ hunk = Null
    /\ op = "none"
    /\ arg = NoArg
    /\ out = <<>>
    /\ plan = <<>>
    /\ pc = "idle"
    /\ selIdx = 0
    /\ patch = ""
    /\ stagedHunks = <<>>
    /\ vcsLog = <<>>
    /\ ret = Null
    /\ ParseIdle

\* selectHunksWithLines(diff, ids)
SelectHunksWithLines ==
    /\ op = "none"
    /\ \E ids \in SeqsUpTo(SelectIds, MaxIds) :
          /\ arg' = [ids |-> ids]
          /\ out' = selectHunksWithLines(diff, ids)
    /\ op' = "select"
    /\ UNCHANGED <<hunk, diff, plan, pc, selIdx, patch, stagedHunks, vcsLog, ret, parseVars>>

NextSelect == SelectHunksWithLines

SpecSelect == InitSelect /\ [][NextSelect]_vars

(***************************************************************************)
(* generatePatch as an operation on a list of hunks.                       *)
(***************************************************************************)
PatchHunks ==
    {MkHunk("F", 0, 1, 1, <<[type |-> "context", content |-> "a"],
                            [type |-> "add", content |-> "b"]>>, ""),
     MkHunk("F", 1, 5, 6, <<[type |-> "remove", content |-> "c"]>>, "fn"),
     MkHunk("F", 2, 5, 6, <<[type |-> "add", content |-> ""]>>, ""),
     MkHunk("G", 0, 3, 3, <<[type |-> "context", content |-> "a"],
                            [type |-> "remove", content |-> "b"],
                            [type |-> "add", content |-> "c"]>>, ""),
     MkHunk("G", 1, 1, 1, <<>>, "")}

InitPatch ==
    /\ \E hunks \in SeqsUpTo(PatchHunks, MaxHunks) : arg = [hunks |-> hunks]
    /\ hunk = Null
    /\ op = "none"
    /\ out = <<>>
    /\ ExecIdle
    /\ ParseIdle

\* generatePatch(hunks)
GeneratePatch ==
    /\ op = "none"
    /\ patch' = generatePatch(arg.hunks)
    /\ op' = "patch"
    /\ UNCHANGED <<hunk, arg, out, diff, plan, pc, selIdx, stagedHunks, vcsLog, ret, parseVars>>

NextPatch == GeneratePatch

SpecPatch == InitPatch /\ [][NextPatch]_vars

(***************************************************************************)
(* The staging plan document: generateStagingPlanDocument and              *)
(* parseStagingPlanDocument.  The documents of the model carry no          *)
(* COMPENSATE block, for which parseCompensations returns [] and the plan  *)
(* has no compensations.                                                   *)
(***************************************************************************)
\* The code fence, three backquotes.  A backquote cannot be written in a string of
\* this language: an apostrophe stands for it throughout.
Fence == "'''"

\* String(index).padStart(2)
PadStart2(n) == IF n < 10 THEN " " \o ToString(n) ELSE ToString(n)

\* One row of the fenced block: checkbox, index, prefix, content.
LineRow(line, index) ==
    (IF line.type = "context" THEN "   " ELSE "[ ]")
    \o " " \o "[" \o PadStart2(index) \o "]"
    \o " " \o LinePrefix(line) \o " " \o line.content

\* The section of one hunk, as the lines of its template.
HunkSection(h) ==
    <<"### " \o h.id, "", "[x] Include entire hunk", "", "Or select specific lines:", Fence>>
    \o SplitLines(JoinLines([k \in 1..Len(h.lines) |-> LineRow(h.lines[k], k - 1)]))
    \o <<Fence, "">>

RECURSIVE HunkSectionsOf(_)
HunkSectionsOf(hunks) ==
    IF hunks = <<>> THEN <<>>
    ELSE IF Len(hunks) = 1 THEN <<JoinLines(HunkSection(Head(hunks)))>>
    ELSE <<JoinLines(HunkSection(Head(hunks)))>> \o HunkSectionsOf(Tail(hunks))

generateStagingPlanDocument(fs, commitMessage) ==
    "# Staging Plan\n\nCommit message: " \o commitMessage \o "\n\n---\n\n"
    \o JoinLines(HunkSectionsOf(getAllHunks(fs)))

\* \s
IsSpace(c) == c \in {" ", "\t"}

\* The position after the run of white space of str that starts at k: \s*
RECURSIVE SkipSpaces(_, _)
SkipSpaces(str, k) ==
    IF k <= Len(str) /\ IsSpace(CharAt(str, k)) THEN SkipSpaces(str, k + 1) ELSE k

\* The position after the run of non-space characters of str that starts at k: \S*
RECURSIVE SkipToken(_, _)
SkipToken(str, k) ==
    IF k <= Len(str) /\ ~IsSpace(CharAt(str, k)) THEN SkipToken(str, k + 1) ELSE k

UpperCase == "ABCDEFGHIJKLMNOPQRSTUVWXYZ"
LowerCase == "abcdefghijklmnopqrstuvwxyz"

LowerChar(c) ==
    LET at == {i \in 1..Len(UpperCase) : CharAt(UpperCase, i) = c}
    IN IF at = {} THEN c ELSE CharAt(LowerCase, CHOOSE i \in at : TRUE)

RECURSIVE ToLower(_)
ToLower(str) == IF Len(str) = 0 THEN "" ELSE LowerChar(CharAt(str, 1)) \o ToLower(Tail(str))

\* /^(.+)$/ after \s*: the rest from the first non-space character; when the rest is
\* white space only, \s* gives back its last character.
RestAfterSpaces(str, k) ==
    IF k > Len(str) THEN ""
    ELSE IF SkipSpaces(str, k) <= Len(str) THEN SubSeq(str, SkipSpaces(str, k), Len(str))
    ELSE SubSeq(str, Len(str), Len(str))

\* line.match(/^Commit message:\s*(.+)$/): the group, or "" without a match.
CommitMessageOf(line) ==
    IF StartsWith(line, "Commit message:") THEN RestAfterSpaces(line, 16) ELSE ""

\* The commit message: the first matching line's group, trimmed.
ExtractCommitMessage(lines) ==
    LET hits == {k \in 1..Len(lines) : CommitMessageOf(lines[k]) # ""}
    IN IF hits = {} THEN "untitled commit"
       ELSE Trim(CommitMessageOf(lines[CHOOSE k \in hits : \A j \in hits : k <= j]))

\* line.match(/^\[(x|~| )\]\s+(\S+)/): [checkbox, filename], or Null.
FileLevelMatch(line) ==
    IF /\ Len(line) >= 5
       /\ CharAt(line, 1) = "["
       /\ CharAt(line, 2) \in {"x", "~", " "}
       /\ CharAt(line, 3) = "]"
       /\ SkipSpaces(line, 4) > 4
       /\ SkipToken(line, SkipSpaces(line, 4)) > SkipSpaces(line, 4)
    THEN [checkbox |-> CharAt(line, 2),
          filename |-> SubSeq(line, SkipSpaces(line, 4), SkipToken(line, SkipSpaces(line, 4)) - 1)]
    ELSE Null

\* fileLevelSelections: the matches of the file-level regex, in line order.
FileLevelMap(lines) ==
    LET ms == [k \in 1..Len(lines) |-> FileLevelMatch(lines[k])]
    IN SelectSeq(ms, LAMBDA m : m # Null)

\* fileLevelSelections.get(filename): the mode of the last line that sets it, or "".
FileLevelMode(map, filename) ==
    LET sets == {k \in 1..Len(map) : map[k].filename = filename}
    IN IF sets = {} THEN ""
       ELSE LET m == map[CHOOSE k \in sets : \A j \in sets : j <= k]
            IN IF m.checkbox = "x" THEN "all" ELSE IF m.checkbox = "~" THEN "partial" ELSE "skip"

\* fileLevelSelections.size > 0
HasFileLevel(map) == Len(map) > 0

MkSelectionOf(hunkId, mode) == MkSelection(hunkId, mode, <<>>, <<>>, <<>>)

\* The selections pushed for the files of the diff from the file-level checkboxes.
RECURSIVE FileLevelSelections(_, _)
FileLevelSelections(map, fs) ==
    IF fs = <<>> THEN <<>>
    ELSE LET file == Head(fs)
             byNew == FileLevelMode(map, file.newPath)
             mode == IF byNew # "" THEN byNew ELSE FileLevelMode(map, file.oldPath)
         IN (IF mode = "all"
             THEN [k \in 1..Len(file.hunks) |-> MkSelectionOf(file.hunks[k].id, "all")]
             ELSE IF mode = "skip"
             THEN [k \in 1..Len(file.hunks) |-> MkSelectionOf(file.hunks[k].id, "none")]
             ELSE <<>>)
            \o FileLevelSelections(map, Tail(fs))

\* line.match(/^###\s+(\S+:\d+)/): the group, or "" without a match.
HunkHeaderId(line) ==
    IF ~(StartsWith(line, "###") /\ SkipSpaces(line, 4) > 4) THEN ""
    ELSE LET first == SkipSpaces(line, 4)
             last == SkipToken(line, first) - 1
             colons == {c \in (first + 1)..(last - 1) :
                           CharAt(line, c) = ":" /\ CharAt(line, c + 1) \in Digits}
         IN IF colons = {} THEN ""
            ELSE LET c == CHOOSE x \in colons : \A y \in colons : y <= x
                 IN SubSeq(line, first, DigitsEnd(line, c + 1) - 1)

\* line.match(/^\[x\]\s+Include entire hunk/i)
IsEntireHunkLine(line) ==
    /\ ToLower(Sub(line, 1, 3)) = "[x]"
    /\ SkipSpaces(line, 4) > 4
    /\ ToLower(Sub(line, SkipSpaces(line, 4), SkipSpaces(line, 4) + 18)) = "include entire hunk"

\* /^\[m\]\s+\[\s*(\d+)\]/ for a mark m of marks: the digits and the position after
\* the match, or Null.
MarkedRow(line, marks) ==
    LET open == SkipSpaces(line, 4)
        first == SkipSpaces(line, open + 1)
        last == DigitsEnd(line, first)
    IN IF /\ CharAt(line, 1) = "["
          /\ CharAt(line, 2) \in marks
          /\ CharAt(line, 3) = "]"
          /\ open > 4
          /\ CharAt(line, open) = "["
          /\ last > first
          /\ CharAt(line, last) = "]"
       THEN [index |-> parseInt(SubSeq(line, first, last - 1)), next |-> last + 1]
       ELSE Null

\* /^\[x\]\s+\[\s*(\d+)\]\s*\+/ (sign "+") and /^\[x\]\s+\[\s*(\d+)\]\s*-/ (sign "-")
SignedRow(line, sign) ==
    LET row == MarkedRow(line, {"x"})
    IN IF row # Null /\ CharAt(line, SkipSpaces(line, row.next)) = sign THEN row ELSE Null

\* line.match(/^EDIT\s+\[(\d+)\]:\s*(.+)$/): the LineEdit, or Null.
EditDirective(line) ==
    LET open == SkipSpaces(line, 5)
        last == DigitsEnd(line, open + 1)
    IN IF /\ StartsWith(line, "EDIT")
          /\ open > 5
          /\ CharAt(line, open) = "["
          /\ last > open + 1
          /\ Sub(line, last, last + 1) = "]:"
          /\ RestAfterSpaces(line, last + 2) # ""
       THEN [lineIndex |-> parseInt(SubSeq(line, open + 1, last - 1)),
             newContent |-> RestAfterSpaces(line, last + 2)]
       ELSE Null

\* createSelectionWithRemovals: an empty list stands for an absent field.
createSelectionWithRemovals(hunkId, entireHunk, additions, removals, edits) ==
    IF entireHunk THEN MkSelection(hunkId, "all", <<>>, <<>>, edits)
    ELSE IF Len(additions) > 0 \/ Len(removals) > 0 \/ Len(edits) > 0
    THEN MkSelection(hunkId, "partial", additions, removals, edits)
    ELSE MkSelection(hunkId, "none", <<>>, <<>>, <<>>)

\* selections with the selection of the section in progress pushed, when there is one.
WithSection(st) ==
    IF st.currentHunkId # ""
    THEN Append(st.selections,
                createSelectionWithRemovals(st.currentHunkId, st.entireHunkSelected,
                                            st.selectedAdditions, st.selectedRemovals,
                                            st.lineEdits))
    ELSE st.selections

\* The hunk header branch of the section loop.
PlanHeader(st, line) ==
    [selections |-> WithSection(st),
     currentHunkId |-> HunkHeaderId(line),
     entireHunkSelected |-> FALSE,
     selectedAdditions |-> <<>>,
     selectedRemovals |-> <<>>,
     lineEdits |-> <<>>,
     inCodeBlock |-> FALSE]

\* One iteration of the section loop; st = [selections, currentHunkId,
\* entireHunkSelected, selectedAdditions, selectedRemovals, lineEdits, inCodeBlock].
PlanStep(st, line) ==
    IF HunkHeaderId(line) # "" THEN PlanHeader(st, line)
    ELSE IF IsEntireHunkLine(line) THEN [st EXCEPT !.entireHunkSelected = TRUE]
    ELSE IF StartsWith(line, Fence) THEN [st EXCEPT !.inCodeBlock = ~st.inCodeBlock]
    ELSE IF st.inCodeBlock /\ st.currentHunkId # "" /\ SignedRow(line, "+") # Null
    THEN [st EXCEPT !.selectedAdditions = Append(@, SignedRow(line, "+").index)]
    ELSE IF st.inCodeBlock /\ st.currentHunkId # "" /\ SignedRow(line, "-") # Null
    THEN [st EXCEPT !.selectedRemovals = Append(@, SignedRow(line, "-").index)]
    ELSE IF st.inCodeBlock /\ st.currentHunkId # "" /\ MarkedRow(line, {"E", "e"}) # Null
    THEN [st EXCEPT !.selectedAdditions = Append(@, MarkedRow(line, {"E", "e"}).index)]
    ELSE IF EditDirective(line) # Null /\ st.currentHunkId # ""
    THEN [st EXCEPT !.lineEdits = Append(@, EditDirective(line))]
    ELSE st

\* for (const line of lines), from line k on.  The loop's variables have their values
\* at each iteration: st is evaluated (the comparison) before the next line is read.
RECURSIVE PlanLoop(_, _, _)
PlanLoop(lines, k, st) ==
    IF k > Len(lines) \/ st = Null THEN st
    ELSE PlanLoop(lines, k + 1, PlanStep(st, lines[k]))

\* parseStagingPlanDocument(document, diff); fs = Null stands for no diff argument.
parseStagingPlanDocument(document, fs) ==
    LET lines == SplitLines(document)
        map == FileLevelMap(lines)
        fileLevel == IF fs # Null /\ HasFileLevel(map)
                     THEN FileLevelSelections(map, fs) ELSE <<>>
        st == PlanLoop(lines, 1,
                       [selections |-> fileLevel, currentHunkId |-> "",
                        entireHunkSelected |-> FALSE, selectedAdditions |-> <<>>,
                        selectedRemovals |-> <<>>, lineEdits |-> <<>>,
                        inCodeBlock |-> FALSE])
    IN [commitMessage |-> ExtractCommitMessage(lines), selections |-> WithSection(st)]

(***************************************************************************)
(* The plan document as a state machine.  Either a document is written     *)
(* section by section, or it is generated from a diff and then edited: the *)
(* entire-hunk checkbox of a hunk is cleared and rows are marked [x].  The *)
(* document is then parsed, with or without the diff argument.             *)
(***************************************************************************)
\* The marks of a written section: the mark of the addition row [ 1], the mark of
\* the removal row [ 2], and whether an EDIT directive follows the block.
SectionMarks ==
    {[add |-> " ", remove |-> " ", edit |-> FALSE],
     [add |-> "x", remove |-> " ", edit |-> FALSE],
     [add |-> " ", remove |-> "x", edit |-> FALSE],
     [add |-> "x", remove |-> "x", edit |-> FALSE],
     [add |-> "E", remove |-> " ", edit |-> FALSE],
     [add |-> " ", remove |-> " ", edit |-> TRUE]}

WrittenSections == {[entire |-> e, marks |-> m] : e \in BOOLEAN, m \in SectionMarks}

\* The hunk id of section k of n: hunk k - 1 of file F, or, for the last section of a
\* document with blank, hunk 0 of the file "a b".
SectionId(k, n, blank) == IF blank /\ k = n THEN "a b:0" ELSE "F:" \o ToString(k - 1)

WrittenSection(sec, id) ==
    <<"### " \o id, "",
      (IF sec.entire THEN "[x]" ELSE "[ ]") \o " Include entire hunk", "",
      "Or select specific lines:", Fence,
      "    [ 0]   a",
      "[" \o sec.marks.add \o "] [ 1] + b",
      "[" \o sec.marks.remove \o "] [ 2] - c",
      Fence>>
    \o (IF sec.marks.edit THEN <<"EDIT [1]: z">> ELSE <<>>)
    \o <<"">>

RECURSIVE WrittenSectionsOf(_, _, _)
WrittenSectionsOf(secs, k, blank) ==
    IF k > Len(secs) THEN <<>>
    ELSE WrittenSection(secs[k], SectionId(k, Len(secs), blank))
         \o WrittenSectionsOf(secs, k + 1, blank)

WrittenDocument(secs, blank) ==
    JoinLines(<<"# Staging Plan", "", "Commit message: m", "", "---", "">>
              \o WrittenSectionsOf(secs, 1, blank))

\* The diffs of generated documents: parseDiff of two texts, one with a path that
\* has a blank in it.
PlanTexts ==
    {"diff --git a/F b/F\n@@ -1,2 +1,3 @@\n a\n+b\n-c\n+d\ndiff --git a/G b/G\n@@ -1 +1,2 @@\n a\n+b\n",
     "diff --git a/F b/F\n@@ -1,2 +1,3 @@\n a\n+b\n-c\n+d\ndiff --git a/a b b/a b\n@@ -1 +1,2 @@\n a\n+b\n"}

\* The choices for one hunk: the entire hunk, or additions A and removals R.
ChoicesOf(h) ==
    {[entire |-> TRUE, additions |-> {}, removals |-> {}]}
    \cup {[entire |-> FALSE, additions |-> A, removals |-> R] :
             A \in SUBSET IndicesOfType(h, "add"), R \in SUBSET IndicesOfType(h, "remove")}

InitPlan ==
    /\ \/ /\ diff = <<>>
          /\ \E secs \in SeqsUpTo(WrittenSections, MaxSections) \ {<<>>}, blank \in BOOLEAN :
                /\ arg = [sections |-> secs, blank |-> blank]
                /\ text = WrittenDocument(secs, blank)
          /\ op = "document"
       \/ /\ \E t \in PlanTexts : diff = parseDiff(t)
          /\ \E c1 \in ChoicesOf(getAllHunks(diff)[1]), c2 \in ChoicesOf(getAllHunks(diff)[2]) :
                arg = [choices |-> <<c1, c2>>]
          /\ text = ""
          /\ op = "diff"
    /\ hunk = Null
    /\ out = <<>>
    /\ plan = <<>>
    /\ pc = "idle"
    /\ selIdx = 0
    /\ patch = ""
    /\ stagedHunks = <<>>
    /\ vcsLog = <<>>
    /\ ret = Null
    /\ parsed = <<>>
    /\ patchText = ""
    /\ reparsed = <<>>
    /\ pass = "idle"

planFrame == <<hunk, arg, diff, plan, pc, selIdx, patch, stagedHunks, vcsLog, ret,
               parsed, patchText, reparsed, pass>>

\* generateStagingPlanDocument(diff)
GenerateStagingPlanDocument ==
    /\ op = "diff"
    /\ text' = generateStagingPlanDocument(diff, "Describe this commit")
    /\ op' = "generated"
    /\ UNCHANGED <<out, planFrame>>

\* The line with its checkbox set to mark.
WithMark(line, mark) == "[" \o mark \o "]" \o Sub(line, 4, Len(line))

\* The positions of the section headings of the document, in order.
SectionStarts(lines) ==
    SelectSeq([k \in 1..Len(lines) |-> k], LAMBDA k : StartsWith(lines[k], "### "))

\* The document after the editor has cleared the entire-hunk checkbox of the hunks not
\* chosen whole and marked [x] the rows of the chosen additions and removals; section
\* number s is the section of hunk number s, its checkbox is two lines below the
\* heading and the row of line index i is 6 + i lines below it.
EditedLines(lines, choices) ==
    [k \in 1..Len(lines) |->
        LET hits == {s \in 1..Len(choices) :
                        /\ s <= Len(SectionStarts(lines))
                        /\ \/ /\ k = SectionStarts(lines)[s] + 2
                              /\ ~choices[s].entire
                           \/ \E i \in choices[s].additions \cup choices[s].removals :
                                 k = SectionStarts(lines)[s] + 6 + i}
        IN IF hits = {} THEN lines[k]
           ELSE IF \E s \in hits : k = SectionStarts(lines)[s] + 2
                THEN WithMark(lines[k], " ")
                ELSE WithMark(lines[k], "x")]

EditDocument ==
    /\ op = "generated"
    /\ text' = JoinLines(EditedLines(SplitLines(text), arg.choices))
    /\ op' = "document"
    /\ UNCHANGED <<out, planFrame>>

\* parseStagingPlanDocument(text) and parseStagingPlanDocument(text, diff)
ParseStagingPlanDocument ==
    /\ op = "document"
    /\ \E withDiff \in BOOLEAN :
          out' = [withDiff |-> withDiff,
                  plan |-> parseStagingPlanDocument(text, IF withDiff THEN diff ELSE Null)]
    /\ op' = "parsed"
    /\ UNCHANGED <<text, planFrame>>

NextPlan == GenerateStagingPlanDocument \/ EditDocument \/ ParseStagingPlanDocument

SpecPlan == InitPlan /\ [][NextPlan]_vars

(***************************************************************************)
(* Plan documents with file-level checkboxes, parsed with the diff.  The   *)
(* diff has the file F with two hunks, the file renamed from O to N and    *)
(* the file "a b"; the document has at most one file-level line per file   *)
(* and a hunk section for F:0 and for N:0, or not.                         *)
(***************************************************************************)
FileLevelText ==
    "diff --git a/F b/F\n@@ -1,2 +1,3 @@\n a\n+b\n-c\n@@ -7 +8,2 @@\n a\n+b\n"
    \o "diff --git a/O b/N\n@@ -1 +1,2 @@\n a\n+b\n"
    \o "diff --git a/a b b/a b\n@@ -1 +1,2 @@\n a\n+b\n"

FileLevelDiff == parseDiff(FileLevelText)

NoFileLine == [mark |-> "", path |-> ""]

\* The file-level lines a document may carry for F, for the renamed file and for "a b".
FileLineChoices ==
    <<{NoFileLine} \cup {[mark |-> m, path |-> "F"] : m \in {"x", " ", "~"}},
      {NoFileLine, [mark |-> "x", path |-> "N"], [mark |-> "x", path |-> "O"],
       [mark |-> " ", path |-> "O"], [mark |-> "~", path |-> "N"]},
      {NoFileLine, [mark |-> "x", path |-> "a b"]}>>

\* "[x] <path> (modified)", the line generateFileLevelSummary writes, with its mark.
FileLine(c) ==
    IF c = NoFileLine THEN <<>> ELSE <<"[" \o c.mark \o "] " \o c.path \o " (modified)">>

NoMarks == [add |-> " ", remove |-> " ", edit |-> FALSE]

\* The hunk sections a document may carry for F:0 and for N:0; Null is no section.
SectionChoices ==
    <<{Null,
       [entire |-> TRUE, marks |-> NoMarks],
       [entire |-> FALSE, marks |-> [add |-> "x", remove |-> "x", edit |-> FALSE]],
       [entire |-> FALSE, marks |-> [add |-> "E", remove |-> " ", edit |-> FALSE]]},
      {Null, [entire |-> TRUE, marks |-> NoMarks]}>>

SectionOrNone(sec, id) == IF sec = Null THEN <<>> ELSE WrittenSection(sec, id)

FileLevelDocument(files, secs) ==
    JoinLines(<<"# Staging Plan", "", "Commit message: m", "">>
              \o FileLine(files[1]) \o FileLine(files[2]) \o FileLine(files[3])
              \o <<"", "---", "">>
              \o SectionOrNone(secs[1], "F:0") \o SectionOrNone(secs[2], "N:0"))

InitFileLevel ==
    /\ diff = FileLevelDiff
    /\ \E f1 \in FileLineChoices[1], f2 \in FileLineChoices[2], f3 \in FileLineChoices[3],
          s1 \in SectionChoices[1], s2 \in SectionChoices[2] :
          /\ arg = [files |-> <<f1, f2, f3>>, sections |-> <<s1, s2>>]
          /\ text = FileLevelDocument(<<f1, f2, f3>>, <<s1, s2>>)
    /\ op = "document"
    /\ hunk = Null
    /\ out = <<>>
    /\ plan = <<>>
    /\ pc = "idle"
    /\ selIdx = 0
    /\ patch = ""
    /\ stagedHunks = <<>>
    /\ vcsLog = <<>>
    /\ ret = Null
    /\ parsed = <<>>
    /\ patchText = ""
    /\ reparsed = <<>>
    /\ pass = "idle"

NextFileLevel == ParseStagingPlanDocument

SpecFileLevel == InitFileLevel /\ [][NextFileLevel]_vars

(***************************************************************************)
(* The same documents with one checkbox written in the other case: [x] as  *)
(* [X], or [E] as [e].  Both documents are parsed.                         *)
(***************************************************************************)
OtherCase(mark) == IF mark = "x" THEN "X" ELSE IF mark = "E" THEN "e" ELSE mark

IsCheckbox(line) == CharAt(line, 1) = "[" /\ CharAt(line, 3) = "]" /\ CharAt(line, 2) \in {"x", "E"}

RecaseCheckbox ==
    /\ op = "document"
    /\ \E k \in 1..Len(SplitLines(text)) :
          LET lines == SplitLines(text)
          IN /\ IsCheckbox(lines[k])
             /\ text' = JoinLines([lines EXCEPT ![k] = WithMark(@, OtherCase(CharAt(@, 2)))])
             /\ arg' = [original |-> text, line |-> k]
    /\ op' = "recased"
    /\ UNCHANGED <<out, hunk, diff, plan, pc, selIdx, patch, stagedHunks, vcsLog, ret,
                   parsed, patchText, reparsed, pass>>

\* parseStagingPlanDocument of the recased document and of the original one.
ParseRecased ==
    /\ op = "recased"
    /\ \E withDiff \in BOOLEAN :
          out' = [withDiff |-> withDiff,
                  plan |-> parseStagingPlanDocument(text, IF withDiff THEN diff ELSE Null),
                  original |-> parseStagingPlanDocument(arg.original,
                                                        IF withDiff THEN diff ELSE Null)]
    /\ op' = "recasedParsed"
    /\ UNCHANGED <<text, planFrame>>

NextRecase == RecaseCheckbox \/ ParseRecased

SpecRecase == InitFileLevel /\ [][NextRecase]_vars

(***************************************************************************)
(* The worksheet (generateWorksheet, executeWorksheet).  A worksheet is    *)
(* modelled by the sequence of its hunk entries in file order.  A filled   *)
(* in worksheet is executed; then the plan document with the same choices  *)
(* is parsed and executed against the same diff.                           *)
(***************************************************************************)
generateWorksheet(fs) ==
    [k \in 1..Len(getAllHunks(fs)) |->
        [id |-> getAllHunks(fs)[k].id,
         include |-> "none",
         lines |-> [i \in 1..Len(getAllHunks(fs)[k].lines) |->
                       [index |-> i - 1,
                        type |-> getAllHunks(fs)[k].lines[i].type,
                        content |-> getAllHunks(fs)[k].lines[i].content,
                        include |-> FALSE]]]]

\* The indices of the included lines of the type, in order.
IncludedOfType(entry, type) ==
    LET ls == SelectSeq(entry.lines, LAMBDA l : l.include /\ l.type = type)
    IN {ls[k].index : k \in 1..Len(ls)}

\* The selections executeWorksheet builds: none for an entry with include 'none'.
RECURSIVE WorksheetSelections(_)
WorksheetSelections(entries) ==
    IF entries = <<>> THEN <<>>
    ELSE (IF Head(entries).include = "all"
          THEN <<MkSelection(Head(entries).id, "all", {}, {}, <<>>)>>
          ELSE IF Head(entries).include = "partial"
          THEN <<MkSelection(Head(entries).id, "partial",
                             IncludedOfType(Head(entries), "add"),
                             IncludedOfType(Head(entries), "remove"), <<>>)>>
          ELSE <<>>)
         \o WorksheetSelections(Tail(entries))

\* new Set(selection.includeAdditions || []) and new Set(selection.includeRemovals || [])
\* of executeStagingPlan, for the selections of a parsed plan.
WithIncludeSets(selections) ==
    [k \in 1..Len(selections) |->
        [selections[k] EXCEPT
            !.includeAdditions = {@[i] : i \in 1..Len(@)},
            !.includeRemovals = {@[i] : i \in 1..Len(@)}]]

WorksheetText ==
    "diff --git a/F b/F\n@@ -1,2 +1,2 @@\n a\n+b\n-c\ndiff --git a/G b/G\n@@ -1 +1,2 @@\n a\n+b\n"

WorksheetDiff == parseDiff(WorksheetText)

\* The ways an entry is filled in: include, and the line indices set to include.
FillingsOf(entry) ==
    {[include |-> inc, lines |-> ls] :
        inc \in {"all", "none", "partial"},
        ls \in SUBSET {entry.lines[k].index : k \in {i \in 1..Len(entry.lines) :
                                                        entry.lines[i].type # "context"}}}

Filled(entry, filling) ==
    [entry EXCEPT !.include = filling.include,
                  !.lines = [k \in 1..Len(entry.lines) |->
                                [entry.lines[k] EXCEPT
                                    !.include = entry.lines[k].index \in filling.lines]]]

\* The choice in a plan document that expresses the filled-in entry.
ChoiceOf(entry) ==
    [entire |-> entry.include = "all",
     additions |-> IF entry.include = "partial" THEN IncludedOfType(entry, "add") ELSE {},
     removals |-> IF entry.include = "partial" THEN IncludedOfType(entry, "remove") ELSE {}]

InitWorksheet ==
    /\ diff = WorksheetDiff
    /\ \E f1 \in FillingsOf(generateWorksheet(WorksheetDiff)[1]),
          f2 \in FillingsOf(generateWorksheet(WorksheetDiff)[2]) :
          arg = [worksheet |-> <<Filled(generateWorksheet(WorksheetDiff)[1], f1),
                                 Filled(generateWorksheet(WorksheetDiff)[2], f2)>>]
    /\ op = "worksheet"
    /\ pc = "start"
    /\ plan = <<>>
    /\ selIdx = 0
    /\ patch = ""
    /\ stagedHunks = <<>>
    /\ vcsLog = <<>>
    /\ ret = Null
    /\ hunk = Null
    /\ out = <<>>
    /\ ParseIdle

\* executeWorksheet(diff, worksheet) up to its call of executeStagingPlan.
ExecuteWorksheet ==
    /\ op = "worksheet"
    /\ pc = "start"
    /\ plan' = WorksheetSelections(arg.worksheet)
    /\ pc' = "loop"
    /\ selIdx' = 1
    /\ UNCHANGED <<diff, patch, stagedHunks, vcsLog, ret, manipVars, parseVars>>

\* The worksheet's run is kept; the document with the same choices is generated,
\* edited and parsed, and executeStagingPlan(diff, plan) starts.
ExecuteDocument ==
    /\ op = "worksheet"
    /\ pc = "done"
    /\ out' = [vcsLog |-> vcsLog, ret |-> ret]
    /\ op' = "document"
    /\ text' = JoinLines(EditedLines(SplitLines(generateStagingPlanDocument(diff, "m")),
                                     [k \in 1..Len(arg.worksheet) |-> ChoiceOf(arg.worksheet[k])]))
    /\ plan' = WithIncludeSets(parseStagingPlanDocument(text', Null).selections)
    /\ pc' = "loop"
    /\ selIdx' = 1
    /\ patch' = ""
    /\ stagedHunks' = <<>>
    /\ vcsLog' = <<>>
    /\ ret' = Null
    /\ UNCHANGED <<hunk, arg, diff, parsed, patchText, reparsed, pass>>

NextWorksheet ==
    ExecuteWorksheet \/ ExecuteDocument
    \/ SkipNone \/ CheckPatch \/ ApplyPatchToIndex \/ ReturnSuccess

SpecWorksheet == InitWorksheet /\ [][NextWorksheet]_vars

(***************************************************************************)
(* The round trip: a diff text is parsed, the patch of all its hunks is    *)
(* generated, and the patch is parsed again.                               *)
(***************************************************************************)
InputLines ==
    {"diff --git a/F b/F", "diff --git a/F b/G",
     "@@ -1,2 +1,2 @@", "@@ -5 +6 @@ fn",
     "new file mode 100644",
     " a", "+b", "-a"}

InitRoundTrip ==
    /\ \E lines \in SeqsUpTo(InputLines, MaxText) : text = JoinLines(lines)
    /\ parsed = <<>>
    /\ patchText = ""
    /\ reparsed = <<>>
    /\ pass = "input"
    /\ ManipIdle
    /\ ExecIdle

Parse ==
    /\ pass = "input"
    /\ parsed' = parseDiff(text)
    /\ pass' = "parsed"
    /\ UNCHANGED <<text, patchText, reparsed, manipVars, execVars>>

Regenerate ==
    /\ pass = "parsed"
    /\ patchText' = generatePatch(getAllHunks(parsed))
    /\ pass' = "generated"
    /\ UNCHANGED <<text, parsed, reparsed, manipVars, execVars>>

Reparse ==
    /\ pass = "generated"
    /\ reparsed' = parseDiff(patchText)
    /\ pass' = "done"
    /\ UNCHANGED <<text, parsed, patchText, manipVars, execVars>>

NextRoundTrip == Parse \/ Regenerate \/ Reparse

SpecRoundTrip == InitRoundTrip /\ [][NextRoundTrip]_vars

(***************************************************************************)
(* Properties of the manipulator (specification Spec).                     *)
(***************************************************************************)
LineIdx(h) == 0..(Len(h.lines) - 1)
LineAt(h, i) == h.lines[i + 1]

\* The positions of h.lines that editHunk must keep, and the j-th of them.
KeptPositions(h, S) == {p \in LineIdx(h) : ~(LineAt(h, p).type = "add" /\ p \in S)}
NthOf(positions, j) == CHOOSE p \in positions : Cardinality({q \in positions : q < p}) = j - 1

ExpectedEditedLine(h, p, K) ==
    IF LineAt(h, p).type = "remove" /\ p \in K
    THEN [type |-> "context", content |-> LineAt(h, p).content]
    ELSE LineAt(h, p)

\* C1: editHunk(h, {removeAdditions: S, keepRemovals: K}).lines is h.lines walked in
\* order with each Add line whose position is in S dropped, each Remove line whose
\* position is in K turned into a Context line of the same content, and every other
\* line unchanged; positions are indices into h.lines, and an index of S naming a
\* non-Add line or of K naming a non-Remove line has no effect.
C1_EditByPosition ==
    op = "edit" =>
        LET kept == KeptPositions(hunk, arg.removeAdditions)
            edited == out[1].lines
        IN /\ Len(edited) = Cardinality(kept)
           /\ \A j \in 1..Len(edited) :
                 edited[j] = ExpectedEditedLine(hunk, NthOf(kept, j), arg.keepRemovals)

\* An edit that drops a later Add while an earlier Add stays, demotes a Remove, and
\* whose index sets also name lines of the other kinds.
C1_Witness ==
    /\ op = "edit"
    /\ \E i \in arg.removeAdditions, j \in LineIdx(hunk) \ arg.removeAdditions :
          j < i /\ LineAt(hunk, i).type = "add" /\ LineAt(hunk, j).type = "add"
    /\ \E k \in arg.keepRemovals : LineAt(hunk, k).type = "remove"
    /\ \E i \in arg.removeAdditions : LineAt(hunk, i).type # "add"
    /\ \E k \in arg.keepRemovals : LineAt(hunk, k).type # "remove"

NonAddCount(lines) == Cardinality({k \in 1..Len(lines) : lines[k].type # "add"})
NonRemoveCount(lines) == Cardinality({k \in 1..Len(lines) : lines[k].type # "remove"})

C2_WitnessSplit ==
    /\ op = "split"
    /\ Len(out) >= 3
    /\ out[2].oldCount # out[2].newCount

\* The line sequences obtained by concatenating the bodies of subs, where a sub-hunk
\* may share its first o lines, all Context, with the last o lines of the one before
\* it, and they are then counted once.
RECURSIVE Reconstructions(_)
Reconstructions(subs) ==
    IF Len(subs) = 1 THEN {subs[1].lines}
    ELSE LET last == subs[Len(subs)].lines
             prev == subs[Len(subs) - 1].lines
             overlaps == {o \in 0..Min(Len(last), Len(prev)) :
                             /\ \A k \in 1..o : last[k].type = "context"
                             /\ SubSeq(last, 1, o) = SubSeq(prev, Len(prev) - o + 1, Len(prev))}
         IN {r \o SubSeq(last, o + 1, Len(last)) :
                r \in Reconstructions(SubSeq(subs, 1, Len(subs) - 1)), o \in overlaps}

\* C3: the bodies of the sub-hunks of splitHunk(h, g), concatenated in order with the
\* context shared between adjacent sub-hunks counted once, reproduce h.lines: no line
\* of h is missing and nothing but shared gap context appears twice.
C3_SplitCoversHunk == op = "split" => hunk.lines \in Reconstructions(out)

\* The places (0-based) at which the line sequence sub occurs in lines.
Occurrences(lines, sub) ==
    {p \in 0..(Len(lines) - Len(sub)) : SubSeq(lines, p + 1, p + Len(sub)) = sub}

\* C4: each sub-hunk's oldStart is h.oldStart plus the number of non-Add lines of h
\* before the sub-hunk's first line in h, and its newStart is h.newStart plus the
\* number of non-Remove lines of h before it.
C4_SubHunkStartsLocate ==
    op = "split" =>
        \A k \in 1..Len(out) :
            \E p \in Occurrences(hunk.lines, out[k].lines) :
                /\ out[k].oldStart = hunk.oldStart + NonAddCount(SubSeq(hunk.lines, 1, p))
                /\ out[k].newStart = hunk.newStart + NonRemoveCount(SubSeq(hunk.lines, 1, p))

(***************************************************************************)
(* Properties of executeStagingPlan (specification SpecExec).              *)
(***************************************************************************)
Resolves(k) == plan[k].mode # "none" /\ getHunk(diff, plan[k].hunkId) # Null
Unresolved(k) == plan[k].mode # "none" /\ getHunk(diff, plan[k].hunkId) = Null

IsApplied(e) == e.call = "applyPatchToIndex" /\ e.ok

\* The hunk ids of the selections whose applyPatchToIndex call succeeded, in call order.
AppliedIds ==
    LET applied == SelectSeq(vcsLog, IsApplied)
    IN [k \in 1..Len(applied) |-> plan[applied[k].sel].hunkId]

\* The hunk ids of the first n selections with a mode other than None.
RECURSIVE WantedIds(_)
WantedIds(n) ==
    IF n = 0 THEN <<>>
    ELSE WantedIds(n - 1) \o (IF plan[n].mode # "none" THEN <<plan[n].hunkId>> ELSE <<>>)

\* C6: for each selection with a mode other than None whose hunk resolves, checkPatch
\* is called on its patch before applyPatchToIndex is called on the same text, and
\* applyPatchToIndex only if the check returned applies = true; after the first
\* unresolved hunk id, rejected check or failed apply no VCS operation of any kind is
\* invoked: earlier applications stay and later selections are never attempted.
C6_CheckThenApplyThenHalt ==
    \A k \in 1..Len(vcsLog) :
        LET e == vcsLog[k]
        IN /\ e.call \in {"checkPatch", "applyPatchToIndex"}
           /\ Resolves(e.sel)
           /\ e.call = "applyPatchToIndex" =>
                 /\ k > 1
                 /\ vcsLog[k - 1] = [call |-> "checkPatch", patch |-> e.patch,
                                     ok |-> TRUE, sel |-> e.sel]
           /\ e.call = "checkPatch" =>
                 /\ e.patch = SelectionPatch(getHunk(diff, plan[e.sel].hunkId), plan[e.sel])
                 /\ \A m \in 1..(k - 1) : vcsLog[m].sel < e.sel
           /\ ~e.ok => k = Len(vcsLog) /\ pc = "done" /\ ~ret.success
           /\ \A j \in 1..(e.sel - 1) :
                 \/ plan[j].mode = "none"
                 \/ \E m \in 1..(k - 1) : IsApplied(vcsLog[m]) /\ vcsLog[m].sel = j

\* A run that applied one patch, then failed, with a later selection left unattempted.
C6_Witness ==
    /\ pc = "done"
    /\ Len(vcsLog) >= 3
    /\ IsApplied(vcsLog[2])
    /\ ~vcsLog[Len(vcsLog)].ok
    /\ selIdx < Len(plan)
    /\ Resolves(selIdx + 1)

\* C7: at every return, stagedHunks is exactly the hunkIds, in plan order, of the
\* selections whose applyPatchToIndex call succeeded; selections with mode None never
\* appear and cause no VCS call; success is true iff stagedHunks is the sequence of
\* hunkIds of all selections with a mode other than None.
C7_StagedHunksExact ==
    pc = "done" =>
        /\ ret.stagedHunks = AppliedIds
        /\ \A k \in 1..Len(vcsLog) : plan[vcsLog[k].sel].mode # "none"
        /\ \A k, m \in 1..Len(vcsLog) :
              (k < m /\ IsApplied(vcsLog[k]) /\ IsApplied(vcsLog[m])) => vcsLog[k].sel < vcsLog[m].sel
        /\ ret.success <=> (ret.stagedHunks = WantedIds(Len(plan)))

\* A successful return that staged two hunks and skipped a None selection.
C7_Witness ==
    /\ pc = "done"
    /\ ret.success
    /\ Len(ret.stagedHunks) = 2
    /\ \E k \in 1..Len(plan) : plan[k].mode = "none"

\* C8: at a selection with a mode other than None whose hunkId is no hunk id of the
\* diff, the executor returns success = false, the error 'Hunk not found: <id>' and
\* the ids applied before it, and calls neither checkPatch nor applyPatchToIndex for
\* that selection or a later one.
C8_HunkNotFound ==
    \A j \in 1..Len(plan) :
        Unresolved(j) =>
            /\ selIdx <= j
            /\ \A k \in 1..Len(vcsLog) : vcsLog[k].sel < j
            /\ (pc = "done" /\ selIdx = j) =>
                  ret = [success |-> FALSE,
                         error |-> "Hunk not found: " \o plan[j].hunkId,
                         stagedHunks |-> WantedIds(j - 1)]

\* A return for a missing hunk after one hunk was staged, with selections left.
C8_Witness ==
    /\ pc = "done"
    /\ ret.error = "Hunk not found: X:0"
    /\ Len(ret.stagedHunks) = 1
    /\ selIdx < Len(plan)

\* The hunk with the contents of its edited lines replaced.
RECURSIVE WithLineEdits(_, _)
WithLineEdits(h, edits) ==
    IF edits = <<>> THEN h
    ELSE LET e == Head(edits)
             h2 == IF e.lineIndex < Len(h.lines)
                   THEN [h EXCEPT !.lines[e.lineIndex + 1].content = e.newContent]
                   ELSE h
         IN WithLineEdits(h2, Tail(edits))

\* C9: when a selection carries a lineEdit (lineIndex i, newContent c), the patch text
\* submitted to checkPatch/applyPatchToIndex for the hunk carries c as the content of
\* the line at index i instead of the original content of hunk.lines[i].  Stated for
\* the edits the plan document produces: [E] marks of Add lines, which are included.
C9_LineEditsInPatch ==
    \A k \in 1..Len(vcsLog) :
        LET sel == plan[vcsLog[k].sel]
            h == getHunk(diff, sel.hunkId)
            included == IF sel.mode = "all" THEN IndicesOfType(h, "add")
                        ELSE IndicesOfType(h, "add") \cap sel.includeAdditions
        IN (\A n \in 1..Len(sel.lineEdits) : sel.lineEdits[n].lineIndex \in included) =>
              vcsLog[k].patch = SelectionPatch(WithLineEdits(h, sel.lineEdits), sel)

\* The body lines of a patch of one hunk: what follows the three file header lines
\* and the hunk header, without the empty piece after the final newline.
PatchBody(p) == LET ls == SplitLines(p) IN SubSeq(ls, 5, Len(ls) - 1)

PartialPrefix(line, i, R) ==
    IF line.type = "add" THEN "+"
    ELSE IF line.type = "remove" /\ i \in R THEN "-" ELSE " "

\* C10: for a selection with mode Partial the submitted patch has as '+' lines exactly
\* the hunk's Add lines whose index is in includeAdditions, as '-' lines exactly the
\* Remove lines whose index is in includeRemovals, every other Remove line as a
\* context line, no other Add line, and the Context lines unchanged and in order; for
\* mode All without line edits it is the patch of the unmodified hunk.
C10_PartialPatchBody ==
    \A k \in 1..Len(vcsLog) :
        LET sel == plan[vcsLog[k].sel]
            h == getHunk(diff, sel.hunkId)
            ls == SplitLines(vcsLog[k].patch)
            body == PatchBody(vcsLog[k].patch)
            fileHeader == <<"diff --git a/" \o h.file \o " b/" \o h.file,
                            "--- a/" \o h.file, "+++ b/" \o h.file>>
        IN /\ sel.mode = "partial" =>
                 LET kept == KeptPositions(h, IndicesOfType(h, "add") \ sel.includeAdditions)
                 IN /\ SubSeq(ls, 1, 3) = fileHeader
                    /\ Len(body) = Cardinality(kept)
                    /\ \A j \in 1..Len(body) :
                          LET i == NthOf(kept, j)
                          IN body[j] = PartialPrefix(LineAt(h, i), i, sel.includeRemovals)
                                       \o LineAt(h, i).content
           /\ (sel.mode = "all" /\ Len(sel.lineEdits) = 0) =>
                 /\ SubSeq(ls, 1, 4) = fileHeader \o <<h.header>>
                 /\ Len(body) = Len(h.lines)
                 /\ \A j \in 1..Len(body) :
                       body[j] = LinePrefix(h.lines[j]) \o h.lines[j].content
                 /\ ls[Len(ls)] = ""

\* A Partial patch was submitted that includes one Add and leaves out another, and
\* turns a Remove into context.
C10_Witness ==
    \E k \in 1..Len(vcsLog) :
        LET sel == plan[vcsLog[k].sel]
            h == getHunk(diff, sel.hunkId)
        IN /\ sel.mode = "partial"
           /\ IndicesOfType(h, "add") \cap sel.includeAdditions # {}
           /\ IndicesOfType(h, "add") \ sel.includeAdditions # {}
           /\ IndicesOfType(h, "remove") \ sel.includeRemovals # {}

(***************************************************************************)
(* Properties of isSplittable and splitHunk (specification Spec).          *)
(***************************************************************************)
IsChange(line) == line.type \in {"add", "remove"}

\* Two change lines with only Context lines, at least g of them, between them.
HasGap(lines, g) ==
    \E i, j \in 1..Len(lines) :
        /\ i < j
        /\ IsChange(lines[i])
        /\ IsChange(lines[j])
        /\ \A m \in (i + 1)..(j - 1) : lines[m].type = "context"
        /\ j - i - 1 >= g

\* C13: isSplittable(h, g) is true iff h.lines has a change line, then a run of at
\* least g Context lines, then another change line, with only Context between the two.
C13_SplittableIffGap ==
    op = "splittable" => (out[1] <=> HasGap(hunk.lines, arg.minContextGap))

\* isSplittable has answered true for a gap of two, and false for a hunk with changes.
C13_Witness ==
    /\ op = "splittable"
    /\ arg.minContextGap = 2
    /\ out[1]

C13_WitnessFalse ==
    /\ op = "splittable"
    /\ ~out[1]
    /\ Cardinality({i \in 1..Len(hunk.lines) : IsChange(hunk.lines[i])}) >= 2

\* C14: splitHunk(h, g) is [h] when isSplittable(h, g) is false; otherwise it has at
\* least two sub-hunks, each with a change line, with ids <file>:<index>.<k>, k = 0, 1, ...
C14_SplitShape ==
    op = "split" =>
        IF ~isSplittable(hunk, arg.minContextGap)
        THEN out = <<hunk>>
        ELSE /\ Len(out) >= 2
             /\ \A k \in 1..Len(out) :
                   /\ \E i \in 1..Len(out[k].lines) : IsChange(out[k].lines[i])
                   /\ out[k].id = hunk.file \o ":" \o ToString(hunk.index)
                                     \o "." \o ToString(k - 1)

\* A hunk has been split into three sub-hunks.
C14_Witness ==
    /\ op = "split"
    /\ isSplittable(hunk, arg.minContextGap)
    /\ Len(out) = 3

\* A hunk with change lines that is not splittable has been returned as it is.
C14_WitnessSelf ==
    /\ op = "split"
    /\ ~isSplittable(hunk, arg.minContextGap)
    /\ \E i \in 1..Len(hunk.lines) : IsChange(hunk.lines[i])

ChangeLines(lines) == SelectSeq(lines, IsChange)

RECURSIVE ChangeLinesOfAll(_)
ChangeLinesOfAll(hs) ==
    IF hs = <<>> THEN <<>> ELSE ChangeLines(Head(hs).lines) \o ChangeLinesOfAll(Tail(hs))

\* C15: the Add and Remove lines of the sub-hunks of splitHunk(h, g), concatenated in
\* sub-hunk order, are the Add and Remove lines of h in the same order.
C15_ChangeLinesPreserved ==
    op = "split" => ChangeLinesOfAll(out) = ChangeLines(hunk.lines)

\* A hunk with an addition and a removal of different content has been split.
C15_Witness ==
    /\ op = "split"
    /\ Len(out) >= 2
    /\ \E i, j \in 1..Len(hunk.lines) :
          /\ hunk.lines[i].type = "add"
          /\ hunk.lines[j].type = "remove"
          /\ hunk.lines[i].content # hunk.lines[j].content

(***************************************************************************)
(* Properties of the round trip (specification SpecRoundTrip).             *)
(***************************************************************************)
HunkView(h) ==
    [id |-> h.id, lines |-> h.lines, oldStart |-> h.oldStart, oldCount |-> h.oldCount,
     newStart |-> h.newStart, newCount |-> h.newCount]

\* File by file, for the files that have hunks: the path and the hunks' ids, lines
\* and numeric fields.
DiffView(fs) ==
    LET withHunks == SelectSeq(fs, LAMBDA f : Len(f.hunks) > 0)
    IN [k \in 1..Len(withHunks) |->
           [file |-> withHunks[k].newPath,
            hunks |-> [n \in 1..Len(withHunks[k].hunks) |-> HunkView(withHunks[k].hunks[n])]]]

\* C5 as claimed: parseDiff(generatePatch(d.getAllHunks())) has, file by file, the
\* same hunk ids, line sequences and oldStart, oldCount, newStart, newCount as d.
C5_RoundTrip == pass = "done" => DiffView(reparsed) = DiffView(parsed)

\* The files with hunks have pairwise distinct newPaths, and each file's hunks are
\* in non-decreasing oldStart order.
SortedDistinct(fs) ==
    LET withHunks == SelectSeq(fs, LAMBDA f : Len(f.hunks) > 0)
    IN /\ \A k, m \in 1..Len(withHunks) : k # m => withHunks[k].newPath # withHunks[m].newPath
       /\ \A k \in 1..Len(fs) : \A n \in 1..(Len(fs[k].hunks) - 1) :
             fs[k].hunks[n].oldStart <= fs[k].hunks[n + 1].oldStart

\* C5 amended: when d's files with hunks have distinct newPaths and each file's hunks
\* are in non-decreasing oldStart order, the re-parsed patch has, for the files of d
\* that have hunks and in their order, the same hunk ids, line sequences and numeric
\* fields; files of d without hunks are absent from it.
C5_RoundTripSorted ==
    (pass = "done" /\ SortedDistinct(parsed)) =>
        /\ DiffView(reparsed) = DiffView(parsed)
        /\ \A k \in 1..Len(reparsed) : Len(reparsed[k].hunks) > 0

\* A round trip of a diff of two hunks with equal oldStart, one of them with lines.
C5_Witness ==
    /\ pass = "done"
    /\ SortedDistinct(parsed)
    /\ Len(getAllHunks(parsed)) >= 2
    /\ \E k \in 1..Len(getAllHunks(parsed)) : Len(getAllHunks(parsed)[k].lines) > 0
    /\ Len(reparsed) >= 1

(***************************************************************************)
(* Properties of parseDiff (specification SpecRoundTrip).                  *)
(***************************************************************************)
\* The lines of the text that parseDiff takes as hunk headers: the lines of the hunk
\* header form that come after a file header.
IsFileHeaderLine(lines, k) == MatchFileHeader(lines[k]) # Null
IsHunkHeaderLine(lines, k) ==
    /\ MatchFileHeader(lines[k]) = Null
    /\ MatchHunkHeader(lines[k]) # Null
    /\ \E j \in 1..(k - 1) : IsFileHeaderLine(lines, j)

\* The lines between the hunk header at k and the next header or the end of the text.
BodyOf(lines, k) ==
    {j \in (k + 1)..Len(lines) :
        \A m \in (k + 1)..j : ~IsFileHeaderLine(lines, m) /\ ~IsHunkHeaderLine(lines, m)}

PrefixCount(lines, k, prefixes) ==
    Cardinality({j \in BodyOf(lines, k) : Len(lines[j]) > 0 /\ CharAt(lines[j], 1) \in prefixes})

\* The count a header states in a field: its digits, or 1 when it has none.
StatedCount(digits) == IF digits = "" THEN 1 ELSE parseInt(digits)

\* Every hunk header of the text states the counts of the body lines that follow it.
WellCounted(lines) ==
    \A k \in 1..Len(lines) : IsHunkHeaderLine(lines, k) =>
        /\ StatedCount(MatchHunkHeader(lines[k]).oldCount) = PrefixCount(lines, k, {" ", "-"})
        /\ StatedCount(MatchHunkHeader(lines[k]).newCount) = PrefixCount(lines, k, {" ", "+"})

AllValid(fs) == \A k \in 1..Len(getAllHunks(fs)) : validateHunk(getAllHunks(fs)[k]).valid

\* C11 as claimed: for every input text, validateHunk returns valid for every hunk of
\* parseDiff's result (oldCount = Context + Remove lines, newCount = Context + Add lines).
C11_ParsedCountsValid == pass # "input" => AllValid(parsed)

\* C11 amended: for every input text in which each hunk header states (1 where omitted)
\* the numbers of ' '/'-' lines and of ' '/'+' lines between it and the next header or
\* the end of the text, validateHunk returns valid for every hunk of parseDiff's result.
C11_WellCountedValid ==
    /\ (pass # "input" /\ WellCounted(SplitLines(text))) => AllValid(parsed)
    /\ (pass = "done" /\ WellCounted(SplitLines(patchText))) => AllValid(reparsed)

\* A well-counted text is parsed to a hunk with an omitted count and a body line.
C11_Witness ==
    /\ pass = "parsed"
    /\ WellCounted(SplitLines(text))
    /\ \E k \in 1..Len(getAllHunks(parsed)) :
          /\ Len(getAllHunks(parsed)[k].lines) > 0
          /\ getAllHunks(parsed)[k].header = "@@ -5 +6 @@ fn"

IdsDistinct(fs) ==
    \A k, m \in 1..Len(getAllHunks(fs)) :
        k # m => getAllHunks(fs)[k].id # getAllHunks(fs)[m].id

\* getHunk(id) finds each hunk of the diff under its own id.
IdsIdentify(fs) ==
    \A k \in 1..Len(getAllHunks(fs)) : getHunk(fs, getAllHunks(fs)[k].id) = getAllHunks(fs)[k]

DistinctPaths(fs) ==
    \A k, m \in 1..Len(fs) :
        (k # m /\ Len(fs[k].hunks) > 0 /\ Len(fs[m].hunks) > 0) => fs[k].newPath # fs[m].newPath

IdSet(ids) == {ids[k] : k \in 1..Len(ids)}

\* The line indices n for which the line-level id <h.id>:<n> is among the ids.
LineLevel(h, ids) == {n \in 0..9 : (h.id \o ":" \o ToString(n)) \in IdSet(ids)}

\* h is referenced by line-level ids only.
OnlyLineLevel(h, ids) == LineLevel(h, ids) # {} /\ h.id \notin IdSet(ids)

\* The entries of the result for the hunk id.
EntriesOf(id) == SelectSeq(out, LAMBDA e : e.id = id)

\* h.lines without the Add lines whose index is outside L.
RECURSIVE KeepAdds(_, _, _)
KeepAdds(lines, i, L) ==
    IF i >= Len(lines) THEN <<>>
    ELSE (IF lines[i + 1].type = "add" /\ i \notin L THEN <<>> ELSE <<lines[i + 1]>>)
         \o KeepAdds(lines, i + 1, L)

ContextCount(lines) == Cardinality({i \in 1..Len(lines) : lines[i].type = "context"})
KeptAdds(h, L) == Cardinality({i \in L : i < Len(h.lines) /\ h.lines[i + 1].type = "add"})

\* The lines and newCount that C16 states for the entry of h.
LineSelected(h, ids) ==
    /\ Len(EntriesOf(h.id)) = 1
    /\ EntriesOf(h.id)[1].lines = KeepAdds(h.lines, 0, LineLevel(h, ids))
    /\ EntriesOf(h.id)[1].newCount = ContextCount(h.lines) + KeptAdds(h, LineLevel(h, ids))

\* C16 as claimed: a hunk referenced by line-level ids only keeps the Add lines whose
\* index is in L and every Remove and Context line; its oldCount is h.oldCount and its
\* newCount the number of Context lines plus the kept additions.
C16_LineLevelSelection ==
    op = "select" =>
        \A k \in 1..Len(getAllHunks(diff)) :
            LET h == getAllHunks(diff)[k]
            IN OnlyLineLevel(h, arg.ids) =>
                  /\ LineSelected(h, arg.ids)
                  /\ EntriesOf(h.id)[1].oldCount = h.oldCount

\* C16 amended: as claimed, with oldCount equal to the number of Context and Remove
\* lines of h, which is h.oldCount when h satisfies the count invariants.
C16_LineLevelSelectionCounted ==
    op = "select" =>
        \A k \in 1..Len(getAllHunks(diff)) :
            LET h == getAllHunks(diff)[k]
            IN OnlyLineLevel(h, arg.ids) =>
                  /\ LineSelected(h, arg.ids)
                  /\ EntriesOf(h.id)[1].oldCount = NonAddCount(h.lines)
                  /\ validateHunk(h).valid => EntriesOf(h.id)[1].oldCount = h.oldCount

\* Two line-level ids of a hunk with two additions and a removal: one addition is
\* kept, one is dropped, one id names the removal.
C16_Witness ==
    /\ op = "select"
    /\ IdSet(arg.ids) = {"F:0:1", "F:0:2"}
    /\ Len(out) = 1
    /\ Len(getAllHunks(diff)[1].lines) = 5
    /\ Len(out[1].lines) = 4

\* The hunks of the diff that an id references, whole or by line.
Referenced(ids) ==
    SelectSeq(getAllHunks(diff),
              LAMBDA h : h.id \in IdSet(ids) \/ LineLevel(h, ids) # {})

\* C17: the result has one entry for each referenced hunk of the diff, in the diff's
\* hunk order; a hunk whose own id is among the ids is returned whole and unmodified;
\* ids that match no hunk contribute nothing.
C17_OneEntryPerReferencedHunk ==
    op = "select" =>
        /\ Len(out) = Len(Referenced(arg.ids))
        /\ \A k \in 1..Len(out) :
              /\ out[k].id = Referenced(arg.ids)[k].id
              /\ Referenced(arg.ids)[k].id \in IdSet(arg.ids) => out[k] = Referenced(arg.ids)[k]

(***************************************************************************)
(* Properties of generatePatch (specification SpecPatch).                  *)
(***************************************************************************)
\* The lines of the patch text before its final newline.
OutLines == LET ls == SplitLines(patch) IN SubSeq(ls, 1, Len(ls) - 1)

InputFiles == {arg.hunks[k].file : k \in 1..Len(arg.hunks)}

BlockStarts == {k \in 1..Len(OutLines) : StartsWith(OutLines[k], "diff --git ")}

\* The last line of the block that starts at line k.
BlockEnd(k) ==
    LET later == {m \in BlockStarts : m > k}
    IN IF later = {} THEN Len(OutLines)
       ELSE (CHOOSE m \in later : \A n \in later : m <= n) - 1

PrefixOf(type) == CASE type = "context" -> " " [] type = "add" -> "+" [] type = "remove" -> "-"

\* A hunk as patch lines: its header, then each line behind the prefix of its kind.
Render(h) == <<h.header>> \o [k \in 1..Len(h.lines) |-> PrefixOf(h.lines[k].type) \o h.lines[k].content]

RECURSIVE RenderAll(_, _, _)
RenderAll(hs, order, k) ==
    IF k > Len(hs) THEN <<>> ELSE Render(hs[order[k]]) \o RenderAll(hs, order, k + 1)

\* The orders of hs that are ascending in oldStart.
AscendingOrders(hs) ==
    {order \in [1..Len(hs) -> 1..Len(hs)] :
        /\ \A a, b \in 1..Len(hs) : a # b => order[a] # order[b]
        /\ \A a \in 1..(Len(hs) - 1) : hs[order[a]].oldStart <= hs[order[a + 1]].oldStart}

\* The block of file f: its three header lines, then its hunks in ascending oldStart.
HasBlock(f) ==
    LET starts == {k \in BlockStarts : OutLines[k] = "diff --git a/" \o f \o " b/" \o f}
        hs == SelectSeq(arg.hunks, LAMBDA h : h.file = f)
    IN /\ Cardinality(starts) = 1
       /\ \A k \in starts :
             /\ BlockEnd(k) >= k + 2
             /\ OutLines[k + 1] = "--- a/" \o f
             /\ OutLines[k + 2] = "+++ b/" \o f
             /\ \E order \in AscendingOrders(hs) :
                   SubSeq(OutLines, k + 3, BlockEnd(k)) = RenderAll(hs, order, 1)

\* C18: generatePatch emits one file-header block per distinct file of the input,
\* followed by that file's hunks in ascending oldStart, each as its header and its
\* prefixed lines; the output ends with exactly one newline; no hunks give "".
C18_PatchLayout ==
    op = "patch" =>
        IF arg.hunks = <<>> THEN patch = ""
        ELSE /\ Len(patch) >= 2
             /\ SubSeq(patch, Len(patch), Len(patch)) = "\n"
             /\ SubSeq(patch, Len(patch) - 1, Len(patch) - 1) # "\n"
             /\ Cardinality(BlockStarts) = Cardinality(InputFiles)
             /\ \A f \in InputFiles : HasBlock(f)

\* A patch of hunks of two files given in mixed order with oldStart descending.
C18_Witness ==
    /\ op = "patch"
    /\ Len(arg.hunks) = 3
    /\ arg.hunks[1].file = "F"
    /\ arg.hunks[2].file = "G"
    /\ arg.hunks[3].file = "F"
    /\ arg.hunks[3].oldStart < arg.hunks[1].oldStart
    /\ Cardinality(BlockStarts) = 2

C18_WitnessEmpty == op = "patch" /\ arg.hunks = <<>> /\ patch = ""

(***************************************************************************)
(* The sections of a plan document, read off the document's layout: a      *)
(* heading "### <file>:<index>", then the lines up to the next heading.    *)
(* A row is "[m] [nn] s content": its mark at column 2, its index at       *)
(* columns 6-7 and its sign at column 10.                                  *)
(***************************************************************************)
DocLines == SplitLines(text)

Headings == SectionStarts(DocLines)

SectionLines(s) ==
    SubSeq(DocLines, Headings[s] + 1,
           IF s < Len(Headings) THEN Headings[s + 1] - 1 ELSE Len(DocLines))

HeadingId(s) == Sub(DocLines[Headings[s]], 5, Len(DocLines[Headings[s]]))

IsRow(line) == CharAt(line, 1) = "[" /\ CharAt(line, 3) = "]" /\ CharAt(line, 5) = "["

RowIndex(line) == parseInt(Trim(Sub(line, 6, 7)))

\* The indices of the rows of section s with a mark of marks and the sign, in order.
RowsMarked(s, marks, sign) ==
    LET rows == SelectSeq(SectionLines(s),
                          LAMBDA l : IsRow(l) /\ CharAt(l, 2) \in marks /\ CharAt(l, 10) = sign)
    IN [k \in 1..Len(rows) |-> RowIndex(rows[k])]

\* The EDIT directives of section s, as "EDIT [n]: content" with one-digit n.
DirectivesOf(s) ==
    LET ds == SelectSeq(SectionLines(s), LAMBDA l : StartsWith(l, "EDIT ["))
    IN [k \in 1..Len(ds) |-> [lineIndex |-> parseInt(CharAt(ds[k], 7)),
                              newContent |-> Sub(ds[k], 11, Len(ds[k]))]]

EntireChecked(s) ==
    \E k \in 1..Len(SectionLines(s)) : SectionLines(s)[k] = "[x] Include entire hunk"

\* The selection the section's own lines call for.
SectionSelection(s) ==
    LET adds == RowsMarked(s, {"x", "E"}, "+")
        removes == RowsMarked(s, {"x"}, "-")
        edits == DirectivesOf(s)
    IN IF EntireChecked(s) THEN MkSelection(HeadingId(s), "all", <<>>, <<>>, edits)
       ELSE IF adds # <<>> \/ removes # <<>> \/ edits # <<>>
       THEN MkSelection(HeadingId(s), "partial", adds, removes, edits)
       ELSE MkSelection(HeadingId(s), "none", <<>>, <<>>, <<>>)

NoBlankInIds == \A s \in 1..Len(Headings) : \A k \in 1..Len(HeadingId(s)) : CharAt(HeadingId(s), k) # " "

\* C19: parseStagingPlanDocument gives each hunk section of the document one
\* selection whose mode and indices come from that section's lines only: All when
\* its entire-hunk line is checked (its EDIT directives still in lineEdits),
\* otherwise Partial with exactly the marked indices when it has an [x] addition,
\* an [x] removal, an [E] line or an EDIT directive, otherwise None.
C19_ModePerSection ==
    (op = "parsed" /\ ~out.withDiff) =>
        out.plan.selections = [s \in 1..Len(Headings) |-> SectionSelection(s)]

\* The same for the documents whose section headings have no blank in the file path.
C19_ModePerSectionNoBlank ==
    (op = "parsed" /\ ~out.withDiff /\ NoBlankInIds) =>
        out.plan.selections = [s \in 1..Len(Headings) |-> SectionSelection(s)]

C19_Witness ==
    /\ op = "parsed"
    /\ ~out.withDiff
    /\ NoBlankInIds
    /\ Len(Headings) = 2
    /\ SectionSelection(1).mode = "all"
    /\ SectionSelection(1).lineEdits # <<>>
    /\ SectionSelection(2).mode = "partial"
    /\ SectionSelection(2).includeRemovals = <<2>>

\* The ascending sequence of a set of indices.
Ascending(S) ==
    IF S = {} THEN <<>>
    ELSE LET top == CHOOSE x \in S : \A y \in S : y <= x
         IN SelectSeq([i \in 1..(top + 1) |-> i - 1], LAMBDA i : i \in S)

\* The selection a choice for hunk h calls for.
ChosenSelection(h, choice) ==
    IF choice.entire THEN MkSelection(h.id, "all", <<>>, <<>>, <<>>)
    ELSE IF choice.additions # {} \/ choice.removals # {}
    THEN MkSelection(h.id, "partial", Ascending(choice.additions),
                     Ascending(choice.removals), <<>>)
    ELSE MkSelection(h.id, "none", <<>>, <<>>, <<>>)

Generated == op = "parsed" /\ ~out.withDiff /\ diff # <<>>

NoBlankInPaths ==
    \A k \in 1..Len(diff) : \A c \in 1..Len(diff[k].newPath) : CharAt(diff[k].newPath, c) # " "

\* C20: the document generated from a parsed diff, edited by a per-hunk choice of
\* the entire hunk or of additions A and removals R, parses to one selection per hunk
\* of the diff, in order, with the hunk's id and mode All, Partial with A and R, or
\* None when nothing was chosen.
C20_PlanRoundTrip ==
    Generated =>
        out.plan.selections =
            [k \in 1..Len(getAllHunks(diff)) |->
                ChosenSelection(getAllHunks(diff)[k], arg.choices[k])]

\* The same for the diffs whose paths have no blank.
C20_PlanRoundTripNoBlank ==
    (Generated /\ NoBlankInPaths) =>
        out.plan.selections =
            [k \in 1..Len(getAllHunks(diff)) |->
                ChosenSelection(getAllHunks(diff)[k], arg.choices[k])]

C20_Witness ==
    /\ Generated
    /\ NoBlankInPaths
    /\ arg.choices[1].entire
    /\ ~arg.choices[2].entire
    /\ arg.choices[2].additions # {}
    /\ out.plan.selections[2].mode = "partial"

(***************************************************************************)
(* Checkbox case.                                                          *)
(***************************************************************************)
RecasedLine == SplitLines(arg.original)[arg.line]

\* C21: a document with one checkbox written in the other case ([X] for [x], [e] for
\* [E]) parses to the same plan as the original document, whether the checkbox is a
\* file-level one, the entire-hunk one or the one of an addition or removal row.
C21_CheckboxCaseInsensitive ==
    op = "recasedParsed" => out.plan = out.original

\* The same for the entire-hunk checkbox and the [E] mark only.
C21_EntireHunkAndEditCase ==
    (op = "recasedParsed" /\ (IsEntireHunkLine(RecasedLine) \/ CharAt(RecasedLine, 2) = "E"))
        => out.plan = out.original

\* An [E] row written [e], parsed to a plan that has the row's index.
C21_Witness ==
    /\ op = "recasedParsed"
    /\ CharAt(RecasedLine, 2) = "E"
    /\ \E k \in 1..Len(out.plan.selections) : out.plan.selections[k].includeAdditions = <<1>>

(***************************************************************************)
(* File-level checkboxes.                                                  *)
(***************************************************************************)
\* The selections the file-level line written for file k of the diff calls for.
FileExpansion(k) ==
    LET mode == IF arg.files[k].mark = "x" THEN "all"
                ELSE IF arg.files[k].mark = " " THEN "none" ELSE ""
    IN IF mode = "" THEN <<>>
       ELSE [n \in 1..Len(diff[k].hunks) |->
                MkSelection(diff[k].hunks[n].id, mode, <<>>, <<>>, <<>>)]

\* The selection the hunk section written for id calls for.
SectionExpected(sec, id) ==
    IF sec = Null THEN <<>>
    ELSE LET adds == IF sec.marks.add \in {"x", "E"} THEN <<1>> ELSE <<>>
             removes == IF sec.marks.remove = "x" THEN <<2>> ELSE <<>>
         IN <<IF sec.entire THEN MkSelection(id, "all", <<>>, <<>>, <<>>)
              ELSE IF adds # <<>> \/ removes # <<>>
              THEN MkSelection(id, "partial", adds, removes, <<>>)
              ELSE MkSelection(id, "none", <<>>, <<>>, <<>>)>>

FileLevelParsed ==
    /\ op = "parsed"
    /\ out.withDiff
    /\ \E k \in 1..3 : arg.files[k] # NoFileLine

FileLevelExpected ==
    FileExpansion(1) \o FileExpansion(2) \o FileExpansion(3)
    \o SectionExpected(arg.sections[1], "F:0") \o SectionExpected(arg.sections[2], "N:0")

\* C22: parsed with the diff, a document with file-level checkboxes gives, for each
\* file named by newPath or oldPath on a line "[x] <path>", a selection with mode All
\* for every hunk of the file, on a line "[ ] <path>" a selection with mode None for
\* every hunk, and on a line "[~] <path>" no file-level selection: the file's hunks
\* get the selections of their hunk sections only.
C22_FileLevelExpansion ==
    FileLevelParsed => out.plan.selections = FileLevelExpected

\* The same for the documents without a file-level line for the file "a b".
C22_FileLevelExpansionNoBlank ==
    (FileLevelParsed /\ arg.files[3] = NoFileLine) => out.plan.selections = FileLevelExpected

\* [x] F, [ ] O for the renamed file and a section for N:0.
C22_Witness ==
    /\ FileLevelParsed
    /\ arg.files[1].mark = "x"
    /\ arg.files[2] = [mark |-> " ", path |-> "O"]
    /\ arg.files[3] = NoFileLine
    /\ arg.sections[2] # Null
    /\ Len(out.plan.selections) >= 4
    /\ out.plan.selections[2] = MkSelection("F:1", "all", <<>>, <<>>, <<>>)
    /\ out.plan.selections[3] = MkSelection("N:0", "none", <<>>, <<>>, <<>>)

(***************************************************************************)
(* Worksheet and plan document.                                            *)
(***************************************************************************)
\* The VCS calls of a log: which call, on which patch text, and what it returned.
CallsOf(log) ==
    [k \in 1..Len(log) |-> [call |-> log[k].call, patch |-> log[k].patch, ok |-> log[k].ok]]

BothRun == op = "document" /\ pc = "done"

\* The VCS gave the two runs the same answers, call by call.
SameAnswers ==
    \A k \in 1..Min(Len(out.vcsLog), Len(vcsLog)) : out.vcsLog[k].ok = vcsLog[k].ok

EmptyPartial(entry) ==
    /\ entry.include = "partial"
    /\ IncludedOfType(entry, "add") = {}
    /\ IncludedOfType(entry, "remove") = {}

\* C23: for a filled-in worksheet, executeWorksheet issues the same VCS calls and
\* returns the same result as executeStagingPlan on the plan parsed from the document
\* with the same per-hunk choice and the same included change lines, a hunk marked
\* partial with no change line included among them, when the VCS answers alike.
C23_WorksheetAsDocument ==
    (BothRun /\ SameAnswers) =>
        /\ CallsOf(vcsLog) = CallsOf(out.vcsLog)
        /\ ret = out.ret

\* The same for the worksheets without a hunk marked partial that includes no line.
C23_WorksheetAsDocumentNonEmpty ==
    (BothRun /\ SameAnswers /\ \A k \in 1..Len(arg.worksheet) : ~EmptyPartial(arg.worksheet[k])) =>
        /\ CallsOf(vcsLog) = CallsOf(out.vcsLog)
        /\ ret = out.ret

\* Both runs staged the addition of F:0 and the whole of G:0.
C23_Witness ==
    /\ BothRun
    /\ SameAnswers
    /\ arg.worksheet[1].include = "partial"
    /\ IncludedOfType(arg.worksheet[1], "add") = {1}
    /\ IncludedOfType(arg.worksheet[1], "remove") = {}
    /\ arg.worksheet[2].include = "all"
    /\ ret.success
    /\ out.ret.success
    /\ Len(vcsLog) = 4

(***************************************************************************)
(* The LLM interface: hunkToLLMHunk and analyzeHunks over a diff of two    *)
(* hunks.                                                                  *)
(***************************************************************************)
MaxLLMLines == 3

\* The indexed lines of hunkToLLMHunk; st = [lines, oldLine, newLine].
RECURSIVE IndexedLines(_, _, _, _)
IndexedLines(lines, k, oldLine, newLine) ==
    IF k > Len(lines) THEN <<>>
    ELSE LET line == lines[k]
             indexed == [index |-> k - 1, type |-> line.type, content |-> line.content,
                         oldLineNo |-> IF line.type = "add" THEN Null ELSE oldLine,
                         newLineNo |-> IF line.type = "remove" THEN Null ELSE newLine]
         IN <<indexed>> \o IndexedLines(lines, k + 1,
                                        IF line.type = "add" THEN oldLine ELSE oldLine + 1,
                                        IF line.type = "remove" THEN newLine ELSE newLine + 1)

\* The indices (0-based, ascending) of the lines of one type.
RECURSIVE LineIndicesOfType(_, _, _)
LineIndicesOfType(lines, k, type) ==
    IF k > Len(lines) THEN <<>>
    ELSE (IF lines[k].type = type THEN <<k - 1>> ELSE <<>>) \o LineIndicesOfType(lines, k + 1, type)

summarizeChanges(h) ==
    LET adds == Len(LineIndicesOfType(h.lines, 1, "add"))
        removes == Len(LineIndicesOfType(h.lines, 1, "remove"))
        addPart == "+" \o ToString(adds) \o " lines"
        removePart == "-" \o ToString(removes) \o " lines"
    IN IF adds = 0 /\ removes = 0 THEN "no changes"
       ELSE IF removes = 0 THEN addPart
       ELSE IF adds = 0 THEN removePart
       ELSE addPart \o ", " \o removePart

\* The hint without the cap for splittable hunks.
ComplexityHintUncapped(addedLineIndices, removedLineIndices, splittable) ==
    IF Len(addedLineIndices) > 1 \/ Len(removedLineIndices) > 1 THEN 4 ELSE 1

\* let complexityHint = 1; if (multiple) complexityHint = 4; if (splittable) min(.., 3)
ComplexityHint(addedLineIndices, removedLineIndices, splittable) ==
    LET first == IF Len(addedLineIndices) > 1 \/ Len(removedLineIndices) > 1 THEN 4 ELSE 1
    IN IF splittable THEN Min(first, 3) ELSE first

hunkToLLMHunk(h) ==
    LET addedLineIndices == LineIndicesOfType(h.lines, 1, "add")
        removedLineIndices == LineIndicesOfType(h.lines, 1, "remove")
        splittable == isSplittable(h, 1)
    IN [id |-> h.id,
        file |-> h.file,
        context |-> h.context,
        splittable |-> splittable,
        splitCount |-> IF splittable THEN Len(splitHunk(h, 1)) ELSE Null,
        summary |-> summarizeChanges(h),
        lines |-> IndexedLines(h.lines, 1, h.oldStart, h.newStart),
        addedLineIndices |-> addedLineIndices,
        removedLineIndices |-> removedLineIndices,
        complexityHint |-> ComplexityHint(addedLineIndices, removedLineIndices, splittable)]

\* The buckets with the simple test made first.
BucketOfSimpleFirst(llmHunk) ==
    IF Len(llmHunk.addedLineIndices) <= 1 /\ Len(llmHunk.removedLineIndices) <= 1
    THEN "simple"
    ELSE IF llmHunk.splittable THEN "splittable"
    ELSE "complex"

\* The bucket analyzeHunks chooses for one LLM hunk.
BucketOf(llmHunk) ==
    IF llmHunk.splittable THEN "splittable"
    ELSE IF Len(llmHunk.addedLineIndices) <= 1 /\ Len(llmHunk.removedLineIndices) <= 1
         THEN "simple"
    ELSE "complex"

IdsInBucket(llmHunks, bucket) ==
    LET chosen == SelectSeq(llmHunks, LAMBDA h : BucketOf(h) = bucket)
    IN [k \in 1..Len(chosen) |-> chosen[k].id]

\* byFile: the paths in order of first appearance, each with its hunks in order.
RECURSIVE FilesInOrder(_, _)
FilesInOrder(llmHunks, seen) ==
    IF llmHunks = <<>> THEN <<>>
    ELSE IF Head(llmHunks).file \in seen THEN FilesInOrder(Tail(llmHunks), seen)
    ELSE <<Head(llmHunks).file>> \o FilesInOrder(Tail(llmHunks), seen \cup {Head(llmHunks).file})

analyzeHunks(fs) ==
    LET allHunks == getAllHunks(fs)
        llmHunks == [k \in 1..Len(allHunks) |-> hunkToLLMHunk(allHunks[k])]
        paths == FilesInOrder(llmHunks, {})
    IN [files |-> [k \in 1..Len(paths) |->
                      [path |-> paths[k],
                       hunks |-> SelectSeq(llmHunks, LAMBDA h : h.file = paths[k])]],
        totalHunks |-> Len(allHunks),
        simpleHunks |-> IdsInBucket(llmHunks, "simple"),
        splittableHunks |-> IdsInBucket(llmHunks, "splittable"),
        complexHunks |-> IdsInBucket(llmHunks, "complex")]

\* The diffs analysed: two hunks, of one file or of two files.
LLMDiffs ==
    {IF same
     THEN <<MkFile("F", "F", <<MkHunk("F", 0, 1, 1, LinesOfTypes(t1), ""),
                                MkHunk("F", 1, 7, 9, LinesOfTypes(t2), "fn")>>)>>
     ELSE <<MkFile("F", "F", <<MkHunk("F", 0, 1, 1, LinesOfTypes(t1), "")>>),
            MkFile("G", "G", <<MkHunk("G", 0, 7, 9, LinesOfTypes(t2), "fn")>>)>>
       : same \in BOOLEAN,
         t1 \in SeqsUpTo(LineTypes, MaxLLMLines),
         t2 \in SeqsUpTo(LineTypes, MaxLLMLines)}

InitLLM ==
    /\ diff \in LLMDiffs
    /\ hunk = Null
    /\ op = "none"
    /\ arg = NoArg
    /\ out = <<>>
    /\ plan = <<>>
    /\ pc = "idle"
    /\ selIdx = 0
    /\ patch = ""
    /\ stagedHunks = <<>>
    /\ vcsLog = <<>>
    /\ ret = Null
    /\ ParseIdle

\* hunkToLLMHunk(hunk) for one hunk of the diff
HunkToLLMHunk ==
    /\ op = "none"
    /\ \E k \in 1..Len(getAllHunks(diff)) :
          /\ hunk' = getAllHunks(diff)[k]
          /\ out' = hunkToLLMHunk(getAllHunks(diff)[k])
    /\ op' = "llmHunk"
    /\ UNCHANGED <<arg, execVars, parseVars>>

\* analyzeHunks(diff)
AnalyzeHunks ==
    /\ op = "none"
    /\ out' = analyzeHunks(diff)
    /\ op' = "analysis"
    /\ UNCHANGED <<hunk, arg, execVars, parseVars>>

NextLLM == HunkToLLMHunk \/ AnalyzeHunks

SpecLLM == InitLLM /\ [][NextLLM]_vars

\* C24 (as stated): the complexity hint is at least 4 exactly when the hunk has more than one
\* Add line or more than one Remove line, is 3 exactly when the hunk is splittable with gap 1,
\* and is 1 otherwise.
AddCount(h) == Len(SelectSeq(h.lines, LAMBDA l : l.type = "add"))
RemoveCount(h) == Len(SelectSeq(h.lines, LAMBDA l : l.type = "remove"))
MultipleChanges(h) == AddCount(h) > 1 \/ RemoveCount(h) > 1
PositionsOf(id, list) == {k \in 1..Len(list) : list[k] = id}
KeepsOrder(list, ids) ==
    \A i, j \in 1..Len(list) :
        i < j => \E a, b \in 1..Len(ids) : a < b /\ ids[a] = list[i] /\ ids[b] = list[j]
C25_Bucketing ==
    op = "analysis" =>
        LET allHunks == getAllHunks(diff)
            ids == [k \in 1..Len(allHunks) |-> allHunks[k].id]
        IN /\ \A k \in 1..Len(allHunks) :
                 LET h == allHunks[k]
                     expected == IF isSplittable(h, 1) THEN "splittable"
                                 ELSE IF AddCount(h) <= 1 /\ RemoveCount(h) <= 1 THEN "simple"
                                 ELSE "complex"
                 IN /\ Cardinality(PositionsOf(h.id, out.simpleHunks)) =
                          (IF expected = "simple" THEN 1 ELSE 0)
                    /\ Cardinality(PositionsOf(h.id, out.splittableHunks)) =
                          (IF expected = "splittable" THEN 1 ELSE 0)
                    /\ Cardinality(PositionsOf(h.id, out.complexHunks)) =
                          (IF expected = "complex" THEN 1 ELSE 0)
           /\ out.totalHunks = Len(allHunks)
           /\ out.totalHunks =
                 Len(out.simpleHunks) + Len(out.splittableHunks) + Len(out.complexHunks)
           /\ KeepsOrder(out.simpleHunks, ids)
           /\ KeepsOrder(out.splittableHunks, ids)
           /\ KeepsOrder(out.complexHunks, ids)

\* A diff with a splittable and a complex hunk has been analysed.
C25_Witness ==
    /\ op = "analysis"
    /\ Len(out.splittableHunks) = 1
    /\ Len(out.complexHunks) = 1
    /\ out.totalHunks = 2

(***************************************************************************)
(* parseDiff as a scan: one step per iteration of the outer while loop.    *)
(***************************************************************************)
MaxScanLines == 3

ScanLines ==
    {"diff --git a/F b/F", "@@ -1,2 +1,2 @@",
     "new file mode 100644", "deleted file mode 100644", "index 1..2",
     " a", "+b", "junk", ""}

ScanStart ==
    [lineIndex |-> 0, files |-> <<>>, currentFile |-> Null, currentHunk |-> Null,
     hunkIndex |-> 0]

InitScan ==
    /\ \E lines \in SeqsUpTo(ScanLines, MaxScanLines) : text = JoinLines(lines)
    /\ out = ScanStart
    /\ pass = "scan"
    /\ parsed = <<>>
    /\ patchText = ""
    /\ reparsed = <<>>
    /\ hunk = Null
    /\ op = "idle"
    /\ arg = NoArg
    /\ ExecIdle

\* while (lineIndex < lines.length) { ... }: one iteration
ScanLine ==
    /\ pass = "scan"
    /\ out.lineIndex < Len(SplitLines(text))
    /\ out' = ParseStep(SplitLines(text), out)
    /\ UNCHANGED <<hunk, op, arg, execVars, parseVars>>

\* the pushes after the loop and return createParsedDiff(files)
ScanReturn ==
    /\ pass = "scan"
    /\ out.lineIndex >= Len(SplitLines(text))
    /\ parsed' = IF out.currentFile # Null
                 THEN Append(out.files, WithHunk(out.currentFile, out.currentHunk))
                 ELSE out.files
    /\ pass' = "parsed"
    /\ UNCHANGED <<hunk, op, arg, out, execVars, text, patchText, reparsed>>

NextScan == ScanLine \/ ScanReturn

SpecScan == InitScan /\ [][NextScan]_vars

\* C27 (as stated): no FileDiff returned by parseDiff has both isNew and isDeleted set.
C27_NewDeletedExclusive ==
    pass = "parsed" => \A k \in 1..Len(parsed) : ~(parsed[k].isNew /\ parsed[k].isDeleted)

\* C28: parseDiff is total. The scan never moves backwards or past the end, every iteration
\* consumes at least one line, a line that matches no recognised pattern only advances the
\* line index, a hunk header before the first file header opens no hunk, the value returned
\* is the one parseDiff computes, a list of well-formed FileDiffs, and the scan ends: until it
\* has returned, the iteration it is about to make consumes a line, and the lines left, which
\* every step decreases, bound the number of steps.
ScanLineNow == SplitLines(text)[out.lineIndex + 1]
Unrecognised(line, st) ==
    /\ MatchFileHeader(line) = Null
    /\ MatchHunkHeader(line) = Null \/ st.currentFile = Null
    /\ \/ st.currentHunk = Null
       \/ Len(line) = 0
       \/ CharAt(line, 1) \notin {" ", "+", "-"}
WellFormedFile(f) ==
    /\ DOMAIN f = {"oldPath", "newPath", "isNew", "isDeleted", "isRenamed", "hunks"}
    /\ f.isNew \in BOOLEAN /\ f.isDeleted \in BOOLEAN
    /\ f.isRenamed = (f.oldPath # f.newPath)
    /\ \A k \in 1..Len(f.hunks) :
          /\ f.hunks[k].file = f.newPath
          /\ f.hunks[k].index = k - 1
          /\ \A i \in 1..Len(f.hunks[k].lines) : f.hunks[k].lines[i].type \in LineTypes
ScanStepOk ==
    (pass = "scan" /\ pass' = "scan") =>
        /\ out'.lineIndex > out.lineIndex
        /\ out'.lineIndex <= Len(SplitLines(text))
        /\ Unrecognised(ScanLineNow, out) => out' = [out EXCEPT !.lineIndex = out.lineIndex + 1]
        /\ (MatchHunkHeader(ScanLineNow) # Null /\ out.currentFile = Null) =>
               (out'.currentHunk = Null /\ out'.files = <<>> /\ out'.currentFile = Null)
ScanReturnOk ==
    (pass = "scan" /\ pass' = "parsed") =>
        /\ out.lineIndex = Len(SplitLines(text))
        /\ parsed' = parseDiff(text)
        /\ \A k \in 1..Len(parsed') : WellFormedFile(parsed'[k])
ScanCanStep ==
    (pass = "scan" /\ out.lineIndex < Len(SplitLines(text))) =>
        ParseStep(SplitLines(text), out).lineIndex > out.lineIndex
C28_ParseTotal ==
    /\ [][ScanStepOk /\ ScanReturnOk]_vars
    /\ []ScanCanStep

\* A text with a hunk header before any file header, then a body line and an unrecognised
\* line, has been parsed to an empty diff.
C28_Witness ==
    /\ pass = "parsed"
    /\ text = JoinLines(<<"@@ -1,2 +1,2 @@", "+b", "junk">>)
    /\ parsed = <<>>

\* C29 (as stated): in the patch generatePatch returns, the newStart of each hunk header is
\* the hunk's oldStart plus the sum of newCount - oldCount over the hunks emitted before it
\* for the same file.
RECURSIVE DeltaBefore(_, _)
DeltaBefore(hunks, k) ==
    IF k <= 1 THEN 0
    ELSE DeltaBefore(hunks, k - 1) + hunks[k - 1].newCount - hunks[k - 1].oldCount
C29_NewStartAdjusted ==
    op = "patch" =>
        LET emitted == parseDiff(patch)
        IN \A f \in 1..Len(emitted) :
              \A k \in 1..Len(emitted[f].hunks) :
                 emitted[f].hunks[k].newStart =
                    emitted[f].hunks[k].oldStart + DeltaBefore(emitted[f].hunks, k)

\* C30 (as stated): in the plan parseStagingPlanDocument returns, with or without the diff,
\* each hunk id appears in at most one selection, also when the document carries a
\* file-level checkbox for a file and hunk sections for hunks of that file.
C30_OneSelectionPerHunk ==
    op = "parsed" =>
        \A i, j \in 1..Len(out.plan.selections) :
            out.plan.selections[i].hunkId = out.plan.selections[j].hunkId => i = j

\* The same for the documents parsed without the diff.
C30_OneSelectionPerHunkNoDiff ==
    (op = "parsed" /\ ~out.withDiff) =>
        \A i, j \in 1..Len(out.plan.selections) :
            out.plan.selections[i].hunkId = out.plan.selections[j].hunkId => i = j

\* "[x] F" and a section for F:0 with the entire hunk checked: F:0 is selected twice with
\* mode All.
C30_StagedTwice ==
    /\ op = "parsed"
    /\ out.withDiff
    /\ Len(out.plan.selections) = 3
    /\ out.plan.selections[1] = MkSelection("F:0", "all", <<>>, <<>>, <<>>)
    /\ out.plan.selections[3] = MkSelection("F:0", "all", <<>>, <<>>, <<>>)

(***************************************************************************)
(* Objects and references.  The heap is the sequence of the objects        *)
(* allocated so far and a reference is an index into it: an array object   *)
(* holds a sequence (of line values, or of references), a hunk object the  *)
(* fields of a Hunk with a reference to its lines array, a file object the *)
(* fields of a FileDiff with a reference to its hunks array.  The          *)
(* operations below are the manipulator's and the executor's with every    *)
(* allocation and every write to an object made explicit.                  *)
(***************************************************************************)
MaxHeapLines == 3
MaxHeapIds == 2
MaxHeapPlan == 2

\* A new object: [], {...} or a copy.
Alloc(heap, kind, v) ==
    [heap |-> Append(heap, [kind |-> kind, v |-> v]), ref |-> Len(heap) + 1]

\* object.field = val
Write(heap, ref, field, val) == [heap EXCEPT ![ref].v[field] = val]

\* array.push(item)
Push(heap, ref, item) == [heap EXCEPT ![ref].v = Append(@, item)]

\* The field assigned on the object itself, which is returned.
SpreadInPlace(heap, ref, field, val) == [heap |-> Write(heap, ref, field, val), ref |-> ref]

\* { ...object, field: val }
Spread(heap, ref, field, val) ==
    Alloc(heap, heap[ref].kind, [heap[ref].v EXCEPT ![field] = val])

\* The Hunk value a hunk object stands for.
HunkValue(heap, ref) == [heap[ref].v EXCEPT !.lines = heap[heap[ref].v.lines].v]

\* A hunk and its lines array put on the heap.
StoreHunk(heap, h) ==
    LET lines == Alloc(heap, "array", h.lines)
    IN Alloc(lines.heap, "hunk", [h EXCEPT !.lines = lines.ref])

RECURSIVE StoreHunks(_, _, _)
StoreHunks(heap, hunks, refs) ==
    IF hunks = <<>> THEN [heap |-> heap, refs |-> refs]
    ELSE LET stored == StoreHunk(heap, Head(hunks))
         IN StoreHunks(stored.heap, Tail(hunks), Append(refs, stored.ref))

StoreFile(heap, f) ==
    LET stored == StoreHunks(heap, f.hunks, <<>>)
        hunks == Alloc(stored.heap, "array", stored.refs)
    IN Alloc(hunks.heap, "file", [f EXCEPT !.hunks = hunks.ref])

RECURSIVE StoreFiles(_, _, _)
StoreFiles(heap, fs, refs) ==
    IF fs = <<>> THEN [heap |-> heap, refs |-> refs]
    ELSE LET stored == StoreFile(heap, Head(fs))
         IN StoreFiles(stored.heap, Tail(fs), Append(refs, stored.ref))

\* A ParsedDiff on the heap: its files array.
StoreDiff(fs) ==
    LET stored == StoreFiles(<<>>, fs, <<>>)
    IN Alloc(stored.heap, "array", stored.refs)

\* files.flatMap(f => f.hunks), as references
RECURSIVE HunkRefsOf(_, _)
HunkRefsOf(heap, fileRefs) ==
    IF fileRefs = <<>> THEN <<>>
    ELSE heap[heap[Head(fileRefs)].v.hunks].v \o HunkRefsOf(heap, Tail(fileRefs))

getAllHunksOnHeap(heap, diffRef) == HunkRefsOf(heap, heap[diffRef].v)

\* diff.getHunk(id): the reference of the first hunk with this id, or 0 (undefined).
getHunkOnHeap(heap, diffRef, id) ==
    LET refs == SelectSeq(getAllHunksOnHeap(heap, diffRef), LAMBDA r : heap[r].v.id = id)
    IN IF refs = <<>> THEN 0 ELSE Head(refs)

\* editHunk: newLines, editedHunk = {...hunk, lines: newLines}, then the three assignments.
editHunkOnHeap(heap, hunkRef, removeAdditions, keepRemovals) ==
    LET newLines == Alloc(heap, "array",
                          EditLines(HunkValue(heap, hunkRef).lines, 0,
                                    removeAdditions, keepRemovals))
        editedHunk == Spread(newLines.heap, hunkRef, "lines", newLines.ref)
        lines == newLines.heap[newLines.ref].v
        counted == Write(Write(editedHunk.heap, editedHunk.ref, "oldCount", OldCountOf(lines)),
                         editedHunk.ref, "newCount", NewCountOf(lines))
    IN [heap |-> Write(counted, editedHunk.ref, "header",
                       recalculateHeader(HunkValue(counted, editedHunk.ref))),
        ref |-> editedHunk.ref]

\* splitHunk: [hunk], or a new array of new sub-hunks, each with its group as lines.
splitHunkOnHeap(heap, hunkRef, minContextGap) ==
    IF ~isSplittable(HunkValue(heap, hunkRef), minContextGap)
    THEN Alloc(heap, "array", <<hunkRef>>)
    ELSE LET stored == StoreHunks(heap, splitHunk(HunkValue(heap, hunkRef), minContextGap),
                                  <<>>)
         IN Alloc(stored.heap, "array", stored.refs)

\* The second loop of selectHunksWithLines; result is the array the selection is pushed to.
RECURSIVE SelectLoopOnHeap(_, _, _, _)
SelectLoopOnHeap(heap, refs, ids, result) ==
    IF refs = <<>> THEN [heap |-> heap, ref |-> result]
    ELSE LET h == HunkValue(heap, Head(refs))
         IN IF h.id \in WholeHunkIds(ids)
            THEN SelectLoopOnHeap(Push(heap, result, Head(refs)), Tail(refs), ids, result)
            ELSE IF HasLinesByHunk(ids, h.id)
            THEN LET edited == editHunkOnHeap(heap, Head(refs),
                                              IndicesOfType(h, "add") \ LinesByHunk(ids, h.id),
                                              {})
                 IN SelectLoopOnHeap(Push(edited.heap, result, edited.ref), Tail(refs), ids,
                                     result)
            ELSE SelectLoopOnHeap(heap, Tail(refs), ids, result)

selectHunksWithLinesOnHeap(heap, diffRef, ids) ==
    LET result == Alloc(heap, "array", <<>>)
    IN SelectLoopOnHeap(result.heap, getAllHunksOnHeap(heap, diffRef), ids, result.ref)

\* byFile: one new array per file, holding the file's hunks in the order given.
RECURSIVE GroupByFileOnHeap(_, _, _, _)
GroupByFileOnHeap(heap, refs, files, groups) ==
    IF files = <<>> THEN [heap |-> heap, refs |-> groups]
    ELSE LET existing == Alloc(heap, "array",
                               SelectSeq(refs, LAMBDA r : heap[r].v.file = Head(files)))
         IN GroupByFileOnHeap(existing.heap, refs, Tail(files), Append(groups, existing.ref))

\* Array.prototype.sort by oldStart on references (stable).
RECURSIVE InsertRefByOldStart(_, _, _)
InsertRefByOldStart(heap, sorted, r) ==
    IF sorted = <<>> THEN <<r>>
    ELSE IF heap[r].v.oldStart < heap[Head(sorted)].v.oldStart THEN <<r>> \o sorted
    ELSE <<Head(sorted)>> \o InsertRefByOldStart(heap, Tail(sorted), r)

RECURSIVE SortRefsByOldStart(_, _)
SortRefsByOldStart(heap, refs) ==
    IF refs = <<>> THEN <<>>
    ELSE InsertRefByOldStart(heap, SortRefsByOldStart(heap, SubSeq(refs, 1, Len(refs) - 1)),
                             refs[Len(refs)])

\* const sorted = [...fileHunks].sort(...): the copy is made, then sorted in place.
RECURSIVE SortGroupsOnHeap(_, _)
SortGroupsOnHeap(heap, groups) ==
    IF groups = <<>> THEN heap
    ELSE LET sorted == Alloc(heap, "array", heap[Head(groups)].v)
         IN SortGroupsOnHeap([sorted.heap EXCEPT ![sorted.ref].v =
                                  SortRefsByOldStart(sorted.heap, @)],
                             Tail(groups))

\* generatePatch(hunks): the heap after the call and the text returned.
generatePatchOnHeap(heap, hunksRef) ==
    LET refs == heap[hunksRef].v
        hunks == [k \in 1..Len(refs) |-> HunkValue(heap, refs[k])]
        byFile == GroupByFileOnHeap(heap, refs, FileOrder(hunks, {}), <<>>)
    IN IF refs = <<>> THEN [heap |-> heap, text |-> ""]
       ELSE [heap |-> SortGroupsOnHeap(byFile.heap, byFile.refs),
             text |-> generatePatch(hunks)]

\* The body of executeStagingPlan's loop for one selection whose hunk exists, up to the
\* patch: generatePatch([hunk]) or generatePatch([editHunk(hunk, ...)]).
SelectionPatchOnHeap(heap, hunkRef, selection) ==
    IF selection.mode = "all" /\ Len(selection.lineEdits) = 0
    THEN LET one == Alloc(heap, "array", <<hunkRef>>)
         IN generatePatchOnHeap(one.heap, one.ref)
    ELSE LET h == HunkValue(heap, hunkRef)
             addIndices == IndicesOfType(h, "add")
             removeIndices == IndicesOfType(h, "remove")
             includeAddSet == IF selection.mode = "all" THEN addIndices
                              ELSE selection.includeAdditions
             includeRemoveSet == IF selection.mode = "all" THEN removeIndices
                                 ELSE selection.includeRemovals
             edited == editHunkOnHeap(heap, hunkRef,
                                      {i \in addIndices : i \notin includeAddSet},
                                      {i \in removeIndices : i \notin includeRemoveSet})
             one == Alloc(edited.heap, "array", <<edited.ref>>)
         IN generatePatchOnHeap(one.heap, one.ref)

\* executeStagingPlan with a VCS that accepts every patch: the heap after the call and the
\* patches built; st = [heap, patches].
RECURSIVE ExecuteLoopOnHeap(_, _, _, _)
ExecuteLoopOnHeap(st, diffRef, selections, k) ==
    IF k > Len(selections) THEN st
    ELSE IF selections[k].mode = "none" THEN ExecuteLoopOnHeap(st, diffRef, selections, k + 1)
    ELSE IF getHunkOnHeap(st.heap, diffRef, selections[k].hunkId) = 0 THEN st
    ELSE LET built == SelectionPatchOnHeap(st.heap,
                                           getHunkOnHeap(st.heap, diffRef, selections[k].hunkId),
                                           selections[k])
         IN ExecuteLoopOnHeap([heap |-> built.heap, patches |-> Append(st.patches, built.text)],
                              diffRef, selections, k + 1)

executeStagingPlanOnHeap(heap, diffRef, selections) ==
    ExecuteLoopOnHeap([heap |-> heap, patches |-> <<>>], diffRef, selections, 1)

\* The diffs put on the heap.
HeapDiffs ==
    {FlowDiff,
     <<MkFile("F", "F", <<MkHunk("F", 0, 1, 1, LinesOfTypes(<<"add", "context", "add">>), ""),
                           MkHunk("F", 1, 7, 8, LinesOfTypes(<<"remove", "add">>), "fn")>>)>>}
    \cup {PatchDiff(types) : types \in SeqsUpTo(LineTypes, MaxHeapLines) \ {<<>>}}

HeapIds == {"F:0", "F:1", "F:0:0", "F:0:2"}

HeapSelections ==
    {MkSelection("F:0", "all", {}, {}, <<>>), MkSelection("F:1", "all", {}, {}, <<>>),
     MkSelection("F:0", "partial", {1}, {}, <<>>),
     MkSelection("G:0", "none", {}, {}, <<>>), MkSelection("X:0", "all", {}, {}, <<>>)}

Reverse(s) == [k \in 1..Len(s) |-> s[Len(s) + 1 - k]]

\* The arguments on the heap: the diff, and a hunks array for generatePatch holding the
\* diff's hunks in file order or in the opposite order.
InitHeap ==
    /\ \E fs \in HeapDiffs, backwards \in BOOLEAN :
          LET stored == StoreDiff(fs)
              all == getAllHunksOnHeap(stored.heap, stored.ref)
              hunks == Alloc(stored.heap, "array", IF backwards THEN Reverse(all) ELSE all)
          IN /\ diff = fs
             /\ arg = [heap |-> hunks.heap, diff |-> stored.ref, hunks |-> hunks.ref]
    /\ hunk = Null
    /\ op = "none"
    /\ out = <<>>
    /\ plan = <<>>
    /\ pc = "idle"
    /\ selIdx = 0
    /\ patch = ""
    /\ stagedHunks = <<>>
    /\ vcsLog = <<>>
    /\ ret = Null
    /\ ParseIdle

\* editHunk(hunk, {removeAdditions, keepRemovals}) for a hunk of the diff
EditHunkOnHeap ==
    /\ op = "none"
    /\ \E k \in 1..Len(getAllHunksOnHeap(arg.heap, arg.diff)) :
          LET hunkRef == getAllHunksOnHeap(arg.heap, arg.diff)[k]
              indices == 0..(Len(HunkValue(arg.heap, hunkRef).lines) - 1)
          IN \E S \in SUBSET indices, K \in SUBSET indices :
                out' = [call |-> editHunkOnHeap(arg.heap, hunkRef, S, K), input |-> hunkRef,
                        removeAdditions |-> S, keepRemovals |-> K]
    /\ op' = "editOnHeap"
    /\ UNCHANGED <<hunk, arg, execVars, parseVars>>

\* splitHunk(hunk, minContextGap) for a hunk of the diff
SplitHunkOnHeap ==
    /\ op = "none"
    /\ \E k \in 1..Len(getAllHunksOnHeap(arg.heap, arg.diff)), g \in 1..MaxGap :
          LET hunkRef == getAllHunksOnHeap(arg.heap, arg.diff)[k]
          IN out' = [call |-> splitHunkOnHeap(arg.heap, hunkRef, g), input |-> hunkRef]
    /\ op' = "splitOnHeap"
    /\ UNCHANGED <<hunk, arg, execVars, parseVars>>

\* selectHunksWithLines(diff, ids)
SelectHunksWithLinesOnHeap ==
    /\ op = "none"
    /\ \E ids \in SeqsUpTo(HeapIds, MaxHeapIds) :
          out' = [call |-> selectHunksWithLinesOnHeap(arg.heap, arg.diff, ids), input |-> ids]
    /\ op' = "selectOnHeap"
    /\ UNCHANGED <<hunk, arg, execVars, parseVars>>

\* generatePatch(hunks)
GeneratePatchOnHeap ==
    /\ op = "none"
    /\ out' = [call |-> generatePatchOnHeap(arg.heap, arg.hunks), input |-> arg.hunks]
    /\ op' = "patchOnHeap"
    /\ UNCHANGED <<hunk, arg, execVars, parseVars>>

\* executeStagingPlan(diff, plan)
ExecuteStagingPlanOnHeap ==
    /\ op = "none"
    /\ \E selections \in SeqsUpTo(HeapSelections, MaxHeapPlan) :
          out' = [call |-> executeStagingPlanOnHeap(arg.heap, arg.diff, selections),
                  input |-> selections]
    /\ op' = "executeOnHeap"
    /\ UNCHANGED <<hunk, arg, execVars, parseVars>>

NextHeap ==
    \/ EditHunkOnHeap
    \/ SplitHunkOnHeap
    \/ SelectHunksWithLinesOnHeap
    \/ GeneratePatchOnHeap
    \/ ExecuteStagingPlanOnHeap

SpecHeap == InitHeap /\ [][NextHeap]_vars

\* C26: no manipulator or executor operation mutates its inputs.  After editHunk, splitHunk,
\* selectHunksWithLines, generatePatch or executeStagingPlan returns, every object that
\* existed before the call (the diff's files array, every file, every hunks array, every
\* hunk, every lines array, the hunks array passed to generatePatch) is what it was; the
\* hunk editHunk returns and its lines array are new objects, and so are the sub-hunks of a
\* hunk that splitHunk splits and their lines arrays.
IsNewObject(ref) == ref > Len(arg.heap)
InputsKept ==
    /\ Len(out.call.heap) >= Len(arg.heap)
    /\ \A ref \in 1..Len(arg.heap) : out.call.heap[ref] = arg.heap[ref]
C26_NoInputMutation ==
    /\ op \in {"editOnHeap", "splitOnHeap", "selectOnHeap", "patchOnHeap", "executeOnHeap"} =>
          InputsKept
    /\ op = "editOnHeap" =>
          /\ IsNewObject(out.call.ref)
          /\ IsNewObject(out.call.heap[out.call.ref].v.lines)
          /\ HunkValue(out.call.heap, out.call.ref)
                = editHunk(HunkValue(arg.heap, out.input), out.removeAdditions,
                           out.keepRemovals)
    /\ (op = "splitOnHeap" /\ Len(out.call.heap[out.call.ref].v) > 1) =>
          \A k \in 1..Len(out.call.heap[out.call.ref].v) :
              /\ IsNewObject(out.call.heap[out.call.ref].v[k])
              /\ IsNewObject(out.call.heap[out.call.heap[out.call.ref].v[k]].v.lines)

\* A hunk of the diff has been edited to a hunk with other lines, counts and header.
C26_Witness ==
    /\ op = "editOnHeap"
    /\ HunkValue(out.call.heap, out.call.ref).lines # HunkValue(arg.heap, out.input).lines
    /\ HunkValue(out.call.heap, out.call.ref).header # HunkValue(arg.heap, out.input).header
    /\ Len(getAllHunksOnHeap(arg.heap, arg.diff)) = 2

====
